---- MODULE Spec2Model ----
(***************************************************************************)
(* Batch watermarking tool: the batch orchestrator (core/batch_processor)  *)
(* with its worker pool, the per-file task pipeline and the helpers they   *)
(* use.  File names are sequences of one-character strings so that         *)
(* Path.suffix, Path.stem and str.lower are computed, not assumed.         *)
(***************************************************************************)
EXTENDS Integers, Sequences, FiniteSets, TLC

(* ------------------------------ bounds -------------------------------- *)
\* longest input path list handed to process_batch
MaxFiles == 2
\* largest worker pool size given to the BatchProcessor constructor
MaxWorkers == 2

(* ------------------------- optional values ---------------------------- *)
None == [some |-> FALSE]
Some(v) == [some |-> TRUE, val |-> v]

(* --------------------------- str helpers ------------------------------ *)
\* str.lower() on one character (the letters that occur in the modelled names)
LowerChar(c) ==
    CASE c = "A" -> "a" [] c = "B" -> "b" [] c = "E" -> "e" [] c = "F" -> "f"
      [] c = "G" -> "g" [] c = "I" -> "i" [] c = "J" -> "j" [] c = "M" -> "m"
      [] c = "N" -> "n" [] c = "P" -> "p" [] c = "T" -> "t" [] c = "V" -> "v"
      [] c = "W" -> "w" [] c = "X" -> "x"
      [] OTHER -> c

\* str.lower()
Lower(s) == [k \in 1..Len(s) |-> LowerChar(s[k])]

\* str.rfind('.') as a 1-based index, 0 when there is no dot
RFindDot(s) ==
    LET dots == {k \in 1..Len(s) : s[k] = "."}
    IN IF dots = {} THEN 0 ELSE CHOOSE k \in dots : \A j \in dots : j <= k

\* pathlib: Path(name).suffix - the last dot-separated part, empty when the
\* only dot is the leading or the trailing character
PathSuffix(name) ==
    LET i == RFindDot(name)
    IN IF 1 < i /\ i < Len(name) THEN SubSeq(name, i, Len(name)) ELSE <<>>

\* pathlib: Path(name).stem - the name without its suffix
PathStem(name) ==
    LET i == RFindDot(name)
    IN IF 1 < i /\ i < Len(name) THEN SubSeq(name, 1, i - 1) ELSE name

(* ------------------------------ config.py ----------------------------- *)
SUPPORTED_IMAGE_FORMATS ==
    { <<".", "j", "p", "g">>, <<".", "j", "p", "e", "g">>, <<".", "p", "n", "g">>,
      <<".", "b", "m", "p">>, <<".", "g", "i", "f">>, <<".", "t", "i", "f", "f">>,
      <<".", "t", "i", "f">>, <<".", "w", "e", "b", "p">> }

SUPPORTED_VIDEO_FORMATS ==
    { <<".", "m", "p", "4">>, <<".", "a", "v", "i">>, <<".", "m", "o", "v">>,
      <<".", "m", "k", "v">>, <<".", "w", "m", "v">>, <<".", "f", "l", "v">>,
      <<".", "w", "e", "b", "m">>, <<".", "m", "4", "v">> }

SUPPORTED_INPUT_FORMATS == SUPPORTED_IMAGE_FORMATS \cup SUPPORTED_VIDEO_FORMATS

(* ------------------------- modelled inputs ---------------------------- *)
\* file names offered to the program: a lower-case and an upper-case image
\* extension on the same stem, a video and a text file
Names ==
    { <<"a", ".", "j", "p", "g">>, <<"a", ".", "P", "N", "G">>,
      <<"v", ".", "m", "p", "4">>, <<"n", ".", "t", "x", "t">> }

\* sizes a decoded image can have (width, height)
ImageSizes == { <<8, 6>>, <<8, 1>> }

\* TextWatermarkConfig / ImageWatermarkConfig values (the fields the
\* orchestrator and load_logo read)
TextA == [text |-> "A"]
TextB == [text |-> "B"]
LogoFile == [logo_path |-> "logo.png", logo_base64 |-> ""]
LogoInline == [logo_path |-> "", logo_base64 |-> "iVBOR"]
LogoNone == [logo_path |-> "", logo_base64 |-> ""]

BaseConfig ==
    [ text_watermarks |-> <<>>, image_watermarks |-> <<>>,
      output_format |-> "JPEG", resize_output |-> FALSE,
      resize_width |-> None, resize_height |-> None,
      maintain_aspect_ratio |-> TRUE,
      prefix |-> <<>>, suffix |-> <<"_", "w", "m">>, preserve_exif |-> TRUE ]

\* BatchProcessConfig values used as inputs
Configs ==
    { [BaseConfig EXCEPT !.text_watermarks = <<TextA>>],
      [BaseConfig EXCEPT !.text_watermarks = <<TextA, TextB>>,
                         !.image_watermarks = <<LogoFile, LogoInline>>,
                         !.output_format = "PNG",
                         !.resize_output = TRUE, !.resize_width = Some(4)],
      [BaseConfig EXCEPT !.text_watermarks = <<TextB>>,
                         !.image_watermarks = <<LogoNone>>,
                         !.output_format = "WEBP", !.preserve_exif = FALSE] }

\* BatchProcessConfig values handed to a direct call of process_single_image
TaskConfigs ==
    Configs \cup
    { [BaseConfig EXCEPT !.text_watermarks = <<TextA>>,
                         !.output_format = "WEBP", !.prefix = <<"p", "_">>] }

(* --------------------------- error messages --------------------------- *)
ErrNotFound == "Image file not found"
ErrUnsupported == "Unsupported format"
ErrDecode == "cannot identify image file"
ErrExif == "exif read error"
ErrText == "text watermark error"
ErrLogo == "logo load error"
ErrNoLogo == "Either logo_path or logo_base64 must be provided"
ErrResize == "height and width must be > 0"
ErrSave == "save error"

(* ------------------- core/watermark_engine.py ------------------------- *)
\* mutant: with both dimensions given the image is stretched to the box
ResizedSize_stretched(size, width, height, maintain_aspect) ==
    << IF width.some THEN width.val ELSE size[1], IF height.some THEN height.val ELSE size[2] >>

\* WatermarkEngine.resize_image: the size of the resized image (int()
\* truncation of the scaled dimensions)
ResizedSize(size, width, height, maintain_aspect) ==
    LET orig_w == size[1]
        orig_h == size[2]
    IN IF ~width.some /\ ~height.some THEN size
       ELSE IF maintain_aspect
            THEN IF width.some /\ height.some
                 THEN IF width.val * orig_h <= height.val * orig_w
                      THEN <<(orig_w * width.val) \div orig_w, (orig_h * width.val) \div orig_w>>
                      ELSE <<(orig_w * height.val) \div orig_h, (orig_h * height.val) \div orig_h>>
                 ELSE IF width.some
                      THEN <<width.val, (orig_h * width.val) \div orig_w>>
                      ELSE <<(orig_w * height.val) \div orig_h, height.val>>
            ELSE << IF width.some THEN width.val ELSE orig_w,
                    IF height.some THEN height.val ELSE orig_h >>

(* -------------------- core/batch_processor.py ------------------------- *)
\* BatchProcessor._format_to_extension
FormatToExtension(format) ==
    CASE format = "JPEG" -> <<".", "j", "p", "g">>
      [] format = "PNG" -> <<".", "p", "n", "g">>
      [] format = "WEBP" -> <<".", "w", "e", "b", "p">>
      [] OTHER -> <<".", "j", "p", "g">>

\* mutant: the suffix is left out of the name
GenerateOutputFilename_noSuffix(input_name, prefix, suffix, output_format) ==
    prefix \o PathStem(input_name) \o FormatToExtension(output_format)

\* BatchProcessor._generate_output_filename
GenerateOutputFilename(input_name, prefix, suffix, output_format) ==
    prefix \o PathStem(input_name) \o suffix \o FormatToExtension(output_format)

\* models/schemas.py ProcessingResult as built on the success path
SuccessResult(input_name, output_filename, original_size, output_size) ==
    [ input_file |-> input_name, output_file |-> Some(output_filename),
      success |-> TRUE, error |-> None,
      original_size |-> Some(original_size), output_size |-> Some(output_size) ]

\* ProcessingResult as built by the except clause (the other fields default)
FailedResult(input_name, message) ==
    [ input_file |-> input_name, output_file |-> None,
      success |-> FALSE, error |-> Some(message),
      original_size |-> None, output_size |-> None ]

\* outcomes of the calls a task makes into the file system and the codecs:
\* the call works, the file is missing, or the call raises
Outcomes == {"ok", "missing", "raise"}
Env == [out : Outcomes, size : ImageSizes]

\* one call of process_single_image, at its entry
NewTask ==
    [ pc |-> "load", image |-> None, original_size |-> None,
      exif_data |-> None, exif_bytes |-> None, ti |-> 1, ii |-> 1,
      output_filename |-> None, saved |-> None, exc |-> None, result |-> None ]

\* Raise without the catch-all handler: the exception leaves the call
Raise_escapes(t, message) == [t EXCEPT !.pc = "raised", !.exc = Some(message)]

\* an exception raised inside the try block: control goes to the except clause
Raise(t, message) == [t EXCEPT !.pc = "except", !.exc = Some(message)]

\* StepAfter with the two watermark loops exchanged
StepAfter_imagesFirst(pc, t, config) ==
    LET after_both == IF config.resize_output THEN "resize" ELSE "filename"
        after_images == IF t.ti <= Len(config.text_watermarks) THEN "text" ELSE after_both
        after_exif == IF t.ii <= Len(config.image_watermarks) THEN "image" ELSE after_images
    IN CASE pc = "load" -> "exif"
         [] pc = "exif" -> IF config.preserve_exif THEN "exif_bytes" ELSE after_exif
         [] pc = "exif_bytes" -> after_exif
         [] pc = "image" -> after_exif
         [] pc = "text" -> after_images
         [] pc = "resize" -> "filename"
         [] pc = "filename" -> "save"
         [] pc = "save" -> "return"
         [] OTHER -> "done"

\* the statement that follows the step at position pc in the try block
StepAfter(pc, t, config) ==
    LET after_images == IF config.resize_output THEN "resize" ELSE "filename"
        after_texts == IF t.ii <= Len(config.image_watermarks) THEN "image" ELSE after_images
        after_exif == IF t.ti <= Len(config.text_watermarks) THEN "text" ELSE after_texts
    IN CASE pc = "load" -> "exif"
         [] pc = "exif" -> IF config.preserve_exif THEN "exif_bytes" ELSE after_exif
         [] pc = "exif_bytes" -> after_exif
         [] pc = "text" -> after_exif
         [] pc = "image" -> after_texts
         [] pc = "resize" -> "filename"
         [] pc = "filename" -> "save"
         [] pc = "save" -> "return"
         [] OTHER -> "done"

Advance(t, config) == [t EXCEPT !.pc = StepAfter(t.pc, t, config)]

\* WatermarkEngine.load_image for a path
LoadImage(t, name, env) ==
    IF env.out = "missing" THEN Raise(t, ErrNotFound)
    ELSE IF Lower(PathSuffix(name)) \notin SUPPORTED_INPUT_FORMATS THEN Raise(t, ErrUnsupported)
    ELSE IF env.out = "raise" THEN Raise(t, ErrDecode)
    ELSE [t EXCEPT !.image = Some([size |-> env.size, layers |-> <<>>]),
                   !.original_size = Some(env.size)]

\* ExifHandler.extract_exif as called by the task: no handler around the call
ExtractExif(t, name, env) ==
    IF env.out # "ok" THEN Raise(t, ErrExif)
    ELSE [t EXCEPT !.exif_data = Some([filename |-> name, width |-> t.image.val.size[1],
                                       height |-> t.image.val.size[2]])]

\* the preserve_exif block: its own try/except swallows any failure
GetExifBytes(t, env) ==
    IF env.out # "ok" THEN t ELSE [t EXCEPT !.exif_bytes = Some("exif")]

\* TextWatermark.apply_text_watermark with the next text configuration
ApplyTextWatermark(t, config, env) ==
    IF env.out # "ok" THEN Raise(t, ErrText)
    ELSE [t EXCEPT !.image.val.layers = Append(@, [kind |-> "text", cfg |-> config.text_watermarks[t.ti]]),
                   !.ti = @ + 1]

\* load_logo that falls back to a built-in logo when no source is configured
LoadLogo_lenient(cfg, env) ==
    IF cfg.logo_base64 # "" \/ cfg.logo_path # ""
    THEN (IF env.out = "ok" THEN Some("logo") ELSE [some |-> FALSE, error |-> ErrLogo])
    ELSE Some("logo")

\* ImageWatermark.load_logo: inline bytes first, then the path, else an error
LoadLogo(cfg, env) ==
    IF cfg.logo_base64 # "" THEN (IF env.out = "ok" THEN Some("logo") ELSE [some |-> FALSE, error |-> ErrLogo])
    ELSE IF cfg.logo_path # "" THEN (IF env.out = "ok" THEN Some("logo") ELSE [some |-> FALSE, error |-> ErrLogo])
    ELSE [some |-> FALSE, error |-> ErrNoLogo]

\* ImageWatermark.apply_image_watermark with the next image configuration
ApplyImageWatermark(t, config, env) ==
    LET cfg == config.image_watermarks[t.ii]
        logo == LoadLogo(cfg, env)
    IN IF ~logo.some THEN Raise(t, logo.error)
       ELSE [t EXCEPT !.image.val.layers = Append(@, [kind |-> "image", cfg |-> cfg]),
                      !.ii = @ + 1]

\* the resize block: PIL rejects a target size with a zero dimension
ResizeImage(t, config, env) ==
    LET new_size == ResizedSize(t.image.val.size, config.resize_width,
                                config.resize_height, config.maintain_aspect_ratio)
    IN IF env.out # "ok" \/ new_size[1] <= 0 \/ new_size[2] <= 0 THEN Raise(t, ErrResize)
       ELSE [t EXCEPT !.image.val.size = new_size]

\* WatermarkEngine.save_image: the file written holds the image as it is now
SaveImage(t, env) ==
    IF env.out # "ok" THEN Raise(t, ErrSave)
    ELSE [t EXCEPT !.saved = Some([name |-> t.output_filename.val, image |-> t.image.val,
                                   exif |-> t.exif_bytes])]

\* process_single_image: the effect of the statement at t.pc
TaskNext(t, name, config, env) ==
    LET body ==
          CASE t.pc = "load" -> LoadImage(t, name, env)
            [] t.pc = "exif" -> ExtractExif(t, name, env)
            [] t.pc = "exif_bytes" -> GetExifBytes(t, env)
            [] t.pc = "text" -> ApplyTextWatermark(t, config, env)
            [] t.pc = "image" -> ApplyImageWatermark(t, config, env)
            [] t.pc = "resize" -> ResizeImage(t, config, env)
            [] t.pc = "filename" ->
                 [t EXCEPT !.output_filename =
                     Some(GenerateOutputFilename(name, config.prefix, config.suffix,
                                                 config.output_format))]
            [] t.pc = "save" -> SaveImage(t, env)
            [] OTHER -> t
    IN CASE t.pc = "return" ->
              [t EXCEPT !.pc = "done",
                        !.result = Some(SuccessResult(name, t.output_filename.val,
                                                      t.original_size.val, t.image.val.size))]
         [] t.pc = "except" ->
              [t EXCEPT !.pc = "done", !.result = Some(FailedResult(name, t.exc.val))]
         [] t.pc = "done" -> t
         [] OTHER -> IF body.pc = "except" THEN body ELSE Advance(body, config)

\* the points of a task at which a call can go wrong, with the way it does
FailPoints(config) ==
    { [step |-> <<"none", 0>>, out |-> "ok"],
      [step |-> <<"load", 0>>, out |-> "missing"],
      [step |-> <<"load", 0>>, out |-> "raise"],
      [step |-> <<"exif", 0>>, out |-> "raise"],
      [step |-> <<"exif_bytes", 0>>, out |-> "raise"],
      [step |-> <<"resize", 0>>, out |-> "raise"],
      [step |-> <<"save", 0>>, out |-> "raise"] }
    \cup { [step |-> <<"text", k>>, out |-> "raise"] : k \in 1..Len(config.text_watermarks) }
    \cup { [step |-> <<"image", k>>, out |-> "raise"] : k \in 1..Len(config.image_watermarks) }

\* the step a task is about to execute
StepId(t) ==
    << t.pc, IF t.pc = "text" THEN t.ti ELSE IF t.pc = "image" THEN t.ii ELSE 0 >>

RECURSIVE RunTask(_, _, _, _, _)
\* process_single_image run from t to its return, with every call working
\* except the one at the fail point (each statement acts on the state the
\* statement before it left, taken as a value)
RunTask(t, name, config, fail, size) ==
    IF t.pc = "done" THEN t
    ELSE LET after == { TaskNext(t, name, config,
                                 [out |-> IF StepId(t) = fail.step THEN fail.out ELSE "ok",
                                  size |-> size]) }
         IN CHOOSE r \in { RunTask(n, name, config, fail, size) : n \in after } : TRUE

\* the outcomes of a task explored inside a batch run: every call works, the
\* input file is missing, or the save fails (a direct call of
\* process_single_image explores every fail point)
BatchFails ==
    { [step |-> <<"none", 0>>, out |-> "ok"],
      [step |-> <<"load", 0>>, out |-> "missing"],
      [step |-> <<"save", 0>>, out |-> "raise"] }

\* the decoded size of the files of a batch run
BatchSizes == { <<8, 6>> }

\* models/schemas.py BatchProcessingResult(**kwargs): pydantic validation of
\* the keyword arguments - total_files is required, the other fields default
NewBatchProcessingResult(kwargs) ==
    IF "total_files" \notin DOMAIN kwargs
    THEN [ok |-> FALSE, error |-> "total_files: Field required"]
    ELSE [ok |-> TRUE,
          value |-> kwargs @@ [total_images |-> 0, total_videos |-> 0, successful |-> 0,
                               failed |-> 0, results |-> <<>>]]

(* ------------------------------ state --------------------------------- *)
VARIABLES
    input_paths,        \* process_batch argument: the list of input file names
    config,             \* the BatchProcessConfig of the run / of the task
    max_workers,        \* BatchProcessor.max_workers
    progress_callback,  \* BatchProcessor._progress_callback is set
    cancel_flag,        \* BatchProcessor._cancel_flag
    pc,                 \* position of the thread that runs process_batch
    valid_paths,        \* process_batch local: the filtered list
    total,              \* process_batch local
    futures,            \* future_to_path: per submitted task its state and result
    yielded,            \* futures as_completed has handed out
    cur,                \* the future of the current loop iteration (0: none)
    i,                  \* enumerate index of the current iteration
    ci,                 \* position of the cancel loop over future_to_path
    broke,              \* the completion loop was left by break
    results,            \* process_batch local
    successful,         \* process_batch local
    failed,             \* process_batch local
    progress,           \* calls received by the progress callback, in order
    ret,                \* what process_batch handed to its caller
    task_path,          \* process_single_image argument of a direct call
    task,               \* the direct call of process_single_image
    engine_call,        \* the last direct call of an engine operation, with its outcome
    pool,               \* the work items of the executor, each with its task's position
    output_dir,         \* the files of the output directory: who writes, what they hold
    font_cache,         \* WatermarkEngine._font_cache: the (key, font) items of the dict
    font_threads,       \* the threads calling get_font, each with its position and locals
    font_env,           \* the platform and the font files truetype can open on it
    font_loads,         \* the number of font objects created so far
    current_images,     \* MainWindow.current_images
    image_paths,        \* ImageListPanel.image_paths: the files the list panel shows
    watermark_settings, \* what WatermarkPanel.get_config() returns
    window,             \* process_btn, cancel_btn, progress_bar and the status bar message
    processing_threads, \* the ProcessingThreads started so far, the last being self.processing_thread
    progress_handled    \* the progress signals of the running thread the GUI thread has handled

batchVars == << input_paths, max_workers, progress_callback, cancel_flag, pc, valid_paths, total,
                futures, yielded, cur, i, ci, broke, results, successful, failed,
                progress, ret >>
taskVars == << task_path, task >>
poolVars == << pool, output_dir >>
fontVars == << font_cache, font_threads, font_env, font_loads >>
guiVars == << current_images, image_paths, watermark_settings, window, processing_threads,
             progress_handled >>
vars == << batchVars, config, taskVars, engine_call, poolVars, fontVars, guiVars >>

\* the variables the batch orchestrator does not touch
notBatch == << config, taskVars, engine_call, poolVars, fontVars, guiVars >>
\* the variables a direct task call does not touch
notTask == << batchVars, config, task_path, engine_call, poolVars, fontVars, guiVars >>
\* the variables a direct call of an engine operation does not touch
notEngine == << batchVars, config, taskVars, poolVars, fontVars, guiVars >>
\* the variables the worker threads' file writes do not touch
notPool == << batchVars, config, taskVars, engine_call, fontVars, guiVars >>
\* the variables the get_font calls do not touch
notFont == << batchVars, config, taskVars, engine_call, poolVars, guiVars >>
\* the variables the main window and its processing thread do not touch
notGui == << taskVars, engine_call, poolVars, fontVars >>

\* no engine operation has been called directly
NoCall == [op |-> "none"]

\* the status bar messages, without their figures
Message(kind) == [kind |-> kind]

\* MainWindow.__init__: setup_toolbar and setup_statusbar
NewWindow ==
    [process_btn |-> TRUE, cancel_btn |-> FALSE,
     progress_bar |-> [visible |-> FALSE, value |-> 0],
     statusbar |-> Message("Ready")]

\* there is no main window
NoGui ==
    /\ current_images = <<>>
    /\ image_paths = <<>>
    /\ watermark_settings = BaseConfig
    /\ window = NewWindow
    /\ processing_threads = <<>>
    /\ progress_handled = 0

\* WatermarkEngine.__init__: an empty font cache, and nobody calling get_font
FontIdle ==
    /\ font_cache = {}
    /\ font_threads = <<>>
    /\ font_env = [platform |-> "linux", files |-> {}, arial |-> FALSE]
    /\ font_loads = 0

RECURSIVE ListsUpTo(_, _)
\* all lists of distinct elements of S of length at most n
ListsUpTo(S, n) ==
    IF n = 0 THEN { <<>> }
    ELSE LET shorter == ListsUpTo(S, n - 1)
             longest == {r \in shorter : Len(r) = n - 1}
         IN shorter \cup
            UNION { { Append(q, x) : x \in {y \in S : \A k \in 1..Len(q) : q[k] # y} } :
                    q \in longest }

\* the path lists handed to process_batch
InputLists == ListsUpTo(Names, MaxFiles)

BatchInit ==
    /\ progress_callback = FALSE
    /\ cancel_flag = FALSE
    /\ pc = "idle"
    /\ valid_paths = <<>>
    /\ total = 0
    /\ futures = <<>>
    /\ yielded = {}
    /\ cur = 0
    /\ i = 0
    /\ ci = 0
    /\ broke = FALSE
    /\ results = <<>>
    /\ successful = 0
    /\ failed = 0
    /\ progress = <<>>
    /\ ret = None

\* a BatchProcessor after construction, about to be given a path list
Init ==
    /\ BatchInit
    /\ input_paths \in InputLists
    /\ max_workers \in 1..MaxWorkers
    /\ config \in Configs
    /\ task_path = <<>>
    /\ task = None
    /\ engine_call = NoCall
    /\ pool = <<>>
    /\ output_dir = <<>>
    /\ FontIdle
    /\ NoGui

(* ------------------------- BatchProcessor ----------------------------- *)
\* BatchProcessor.set_progress_callback
set_progress_callback ==
    /\ pc = "idle"
    /\ ~progress_callback
    /\ progress_callback' = TRUE
    /\ UNCHANGED << input_paths, max_workers, cancel_flag, pc, valid_paths, total, futures, yielded,
                    cur, i, ci, broke, results, successful, failed, progress, ret >>
    /\ UNCHANGED notBatch

\* BatchProcessor.cancel, called from another thread at any time
cancel ==
    /\ pc # "done"
    /\ ~cancel_flag
    /\ cancel_flag' = TRUE
    /\ UNCHANGED << input_paths, max_workers, progress_callback, pc, valid_paths, total, futures,
                    yielded, cur, i, ci, broke, results, successful, failed, progress, ret >>
    /\ UNCHANGED notBatch

\* the extension filter of process_batch
IsValidPath(name) == Lower(PathSuffix(name)) \in SUPPORTED_INPUT_FORMATS

\* mutant: process_batch starts without resetting the flag
process_batch_enter_noReset ==
    /\ pc = "idle"
    /\ results' = <<>>
    /\ successful' = 0
    /\ failed' = 0
    /\ valid_paths' = SelectSeq(input_paths, IsValidPath)
    /\ total' = Len(valid_paths')
    /\ futures' = [f \in 1..total' |-> [state |-> "pending", result |-> None]]
    /\ yielded' = {}
    /\ pc' = "as_completed"
    /\ UNCHANGED << input_paths, max_workers, progress_callback, cancel_flag, cur, i, ci, broke,
                    progress, ret >>
    /\ UNCHANGED notBatch

\* process_batch up to the submission of the tasks: reset the flag, filter
\* the paths, submit one task per valid path
process_batch_enter ==
    /\ pc = "idle"
    /\ cancel_flag' = FALSE
    /\ results' = <<>>
    /\ successful' = 0
    /\ failed' = 0
    /\ valid_paths' = SelectSeq(input_paths, IsValidPath)
    /\ total' = Len(valid_paths')
    /\ futures' = [f \in 1..total' |-> [state |-> "pending", result |-> None]]
    /\ yielded' = {}
    /\ pc' = "as_completed"
    /\ UNCHANGED << input_paths, max_workers, progress_callback, cur, i, ci, broke, progress, ret >>
    /\ UNCHANGED notBatch

\* the executor is alive: between submission and the end of the with block
ExecutorAlive == pc \in {"as_completed", "check", "result", "callback", "cancel", "shutdown"}

\* a worker thread takes the oldest pending work item off the queue
worker_start ==
    /\ ExecutorAlive
    /\ Cardinality({g \in DOMAIN futures : futures[g].state = "running"}) < max_workers
    /\ \E f \in DOMAIN futures :
         /\ futures[f].state = "pending"
         /\ \A g \in 1..(f - 1) : futures[g].state # "pending"
         /\ futures' = [futures EXCEPT ![f].state = "running"]
    /\ UNCHANGED << input_paths, max_workers, progress_callback, cancel_flag, pc, valid_paths, total,
                    yielded, cur, i, ci, broke, results, successful, failed, progress, ret >>
    /\ UNCHANGED notBatch

\* the worker finishes process_single_image for its path and sets the
\* future's result
worker_finish ==
    /\ \E f \in DOMAIN futures, fail \in BatchFails, size \in BatchSizes :
         /\ futures[f].state = "running"
         /\ futures' = [futures EXCEPT
                           ![f].state = "done",
                           ![f].result = RunTask(NewTask, valid_paths[f], config, fail, size).result]
    /\ UNCHANGED << input_paths, max_workers, progress_callback, cancel_flag, pc, valid_paths, total,
                    yielded, cur, i, ci, broke, results, successful, failed, progress, ret >>
    /\ UNCHANGED notBatch

\* next(as_completed(...)): hands out a finished future not handed out yet,
\* or ends the loop when every future has been handed out
as_completed ==
    /\ pc = "as_completed"
    /\ \/ /\ yielded = DOMAIN futures
          /\ pc' = "shutdown"
          /\ UNCHANGED << yielded, cur, i >>
       \/ \E f \in DOMAIN futures \ yielded :
            /\ futures[f].state = "done"
            /\ yielded' = yielded \cup {f}
            /\ cur' = f
            /\ i' = Cardinality(yielded)
            /\ pc' = "check"
    /\ UNCHANGED << input_paths, max_workers, progress_callback, cancel_flag, valid_paths, total, futures,
                    ci, broke, results, successful, failed, progress, ret >>
    /\ UNCHANGED notBatch

\* the loop without its cancellation check
check_cancel_flag_ignored ==
    /\ pc = "check"
    /\ pc' = "result"
    /\ UNCHANGED << input_paths, max_workers, progress_callback, cancel_flag, valid_paths, total,
                    futures, yielded, cur, i, ci, broke, results, successful, failed,
                    progress, ret >>
    /\ UNCHANGED notBatch

\* if self._cancel_flag: at the top of each iteration
check_cancel_flag ==
    /\ pc = "check"
    /\ IF cancel_flag THEN pc' = "cancel" /\ ci' = 1
                      ELSE pc' = "result" /\ ci' = ci
    /\ UNCHANGED << input_paths, max_workers, progress_callback, cancel_flag, valid_paths, total, futures,
                    yielded, cur, i, broke, results, successful, failed, progress, ret >>
    /\ UNCHANGED notBatch

\* Future.cancel() that also stops a running work item
FutureCancel_force(fut) ==
    IF fut.state \in {"pending", "running"} THEN [fut EXCEPT !.state = "cancelled"] ELSE fut

\* Future.cancel(): only a pending future is cancelled
FutureCancel(fut) == IF fut.state = "pending" THEN [fut EXCEPT !.state = "cancelled"] ELSE fut

\* for f in future_to_path: f.cancel(), one future per step, then break
cancel_futures ==
    /\ pc = "cancel"
    /\ IF ci <= Len(futures)
       THEN /\ futures' = [futures EXCEPT ![ci] = FutureCancel(@)]
            /\ ci' = ci + 1
            /\ UNCHANGED << pc, broke >>
       ELSE /\ pc' = "shutdown"
            /\ broke' = TRUE
            /\ UNCHANGED << futures, ci >>
    /\ UNCHANGED << input_paths, max_workers, progress_callback, cancel_flag, valid_paths, total,
                    yielded, cur, i, results, successful, failed, progress, ret >>
    /\ UNCHANGED notBatch

\* mutant: a failed result is appended but not counted
record_result_uncounted ==
    /\ pc = "result"
    /\ LET result == futures[cur].result.val
       IN /\ results' = Append(results, result)
          /\ IF result.success
             THEN successful' = successful + 1 /\ failed' = failed
             ELSE failed' = failed /\ successful' = successful
    /\ pc' = "callback"
    /\ UNCHANGED << input_paths, max_workers, progress_callback, cancel_flag, valid_paths, total, futures,
                    yielded, cur, i, ci, broke, progress, ret >>
    /\ UNCHANGED notBatch

\* result = future.result(); results.append(result); count it
record_result ==
    /\ pc = "result"
    /\ LET result == futures[cur].result.val
       IN /\ results' = Append(results, result)
          /\ IF result.success
             THEN successful' = successful + 1 /\ failed' = failed
             ELSE failed' = failed + 1 /\ successful' = successful
    /\ pc' = "callback"
    /\ UNCHANGED << input_paths, max_workers, progress_callback, cancel_flag, valid_paths, total, futures,
                    yielded, cur, i, ci, broke, progress, ret >>
    /\ UNCHANGED notBatch

\* the progress call with the enumerate index passed as it is
ProgressCall_index(idx, tot, name) == [completed |-> idx, total |-> tot, filename |-> name]

\* if self._progress_callback: self._progress_callback(i + 1, total, path.name)
ProgressCall(idx, tot, name) == [completed |-> idx + 1, total |-> tot, filename |-> name]

report_progress ==
    /\ pc = "callback"
    /\ progress' = IF progress_callback
                   THEN Append(progress, ProgressCall(i, total, valid_paths[cur]))
                   ELSE progress
    /\ pc' = "as_completed"
    /\ UNCHANGED << input_paths, max_workers, progress_callback, cancel_flag, valid_paths, total, futures,
                    yielded, cur, i, ci, broke, results, successful, failed, ret >>
    /\ UNCHANGED notBatch

\* mutant: the end of the with block waits for every future to have a result
executor_shutdown_allDone ==
    /\ pc = "shutdown"
    /\ \A f \in DOMAIN futures : futures[f].state = "done"
    /\ pc' = "return"
    /\ UNCHANGED << input_paths, max_workers, progress_callback, cancel_flag, valid_paths, total, futures,
                    yielded, cur, i, ci, broke, results, successful, failed, progress, ret >>
    /\ UNCHANGED notBatch

\* end of the with block: ThreadPoolExecutor.shutdown(wait=True) returns when
\* no work item is queued or running
executor_shutdown ==
    /\ pc = "shutdown"
    /\ \A f \in DOMAIN futures : futures[f].state \in {"done", "cancelled"}
    /\ pc' = "return"
    /\ UNCHANGED << input_paths, max_workers, progress_callback, cancel_flag, valid_paths, total, futures,
                    yielded, cur, i, ci, broke, results, successful, failed, progress, ret >>
    /\ UNCHANGED notBatch

\* the keyword arguments of the return statement of process_batch
ReturnKwargs ==
    [ total_images |-> total, successful |-> successful, failed |-> failed,
      results |-> results ]

\* return BatchProcessingResult(...): the value goes to the caller, or the
\* validation error does
process_batch_return ==
    /\ pc = "return"
    /\ LET built == NewBatchProcessingResult(ReturnKwargs)
       IN ret' = IF built.ok THEN Some([kind |-> "value", value |-> built.value])
                             ELSE Some([kind |-> "exception", error |-> built.error])
    /\ pc' = "done"
    /\ UNCHANGED << input_paths, max_workers, progress_callback, cancel_flag, valid_paths, total, futures,
                    yielded, cur, i, ci, broke, results, successful, failed, progress >>
    /\ UNCHANGED notBatch

Next ==
    \/ set_progress_callback
    \/ cancel
    \/ process_batch_enter
    \/ worker_start
    \/ worker_finish
    \/ as_completed
    \/ check_cancel_flag
    \/ cancel_futures
    \/ record_result
    \/ report_progress
    \/ executor_shutdown
    \/ process_batch_return

Spec == Init /\ [][Next]_vars

\* one step of the thread that called process_batch, from the completion
\* loop to the return statement
LoopStep ==
    \/ as_completed
    \/ check_cancel_flag
    \/ cancel_futures
    \/ record_result
    \/ report_progress
    \/ executor_shutdown
    \/ process_batch_return

\* one step of a worker thread of the pool
WorkerStep == worker_start \/ worker_finish

\* the path lists of the runs followed to their end: two images and a file
\* the extension filter drops
LiveLists ==
    ListsUpTo({ <<"a", ".", "j", "p", "g">>, <<"a", ".", "P", "N", "G">>,
                <<"n", ".", "t", "x", "t">> }, MaxFiles)

\* a BatchProcessor about to be given a path list, with one configuration
LiveInit ==
    /\ BatchInit
    /\ input_paths \in LiveLists
    /\ max_workers \in 1..MaxWorkers
    /\ config = [BaseConfig EXCEPT !.text_watermarks = <<TextA>>]
    /\ task_path = <<>>
    /\ task = None
    /\ engine_call = NoCall
    /\ pool = <<>>
    /\ output_dir = <<>>
    /\ FontIdle
    /\ NoGui

\* the run under scheduling that lets every thread proceed: the thread that
\* called process_batch takes the step of the loop it can take, the pool's
\* worker threads take queued work items and every task they run finishes;
\* nothing obliges a caller to start a run, to install a callback or to cancel
LiveSpec == LiveInit /\ [][Next]_vars /\ WF_vars(LoopStep) /\ WF_vars(WorkerStep)

(* --------------- a direct call of process_single_image ---------------- *)
\* BatchProcessor.process_single_image(path, config) called on its own
TaskInit ==
    /\ BatchInit
    /\ input_paths = <<>>
    /\ max_workers = 1
    /\ config \in TaskConfigs
    /\ task_path \in Names
    /\ task = NewTask
    /\ engine_call = NoCall
    /\ pool = <<>>
    /\ output_dir = <<>>
    /\ FontIdle
    /\ NoGui

\* engine.load_image(input_path)
load_image ==
    /\ task.pc = "load"
    /\ \E env \in [out : Outcomes, size : ImageSizes] :
         task' = TaskNext(task, task_path, config, env)
    /\ UNCHANGED notTask

\* exif_handler.extract_exif(input_path)
extract_exif ==
    /\ task.pc = "exif"
    /\ \E env \in [out : {"ok", "raise"}, size : ImageSizes] :
         task' = TaskNext(task, task_path, config, env)
    /\ UNCHANGED notTask

\* the guarded preserve_exif block
get_exif_bytes ==
    /\ task.pc = "exif_bytes"
    /\ \E env \in [out : {"ok", "raise"}, size : ImageSizes] :
         task' = TaskNext(task, task_path, config, env)
    /\ UNCHANGED notTask

\* one round of the text watermark loop
apply_text_watermark ==
    /\ task.pc = "text"
    /\ \E env \in [out : {"ok", "raise"}, size : ImageSizes] :
         task' = TaskNext(task, task_path, config, env)
    /\ UNCHANGED notTask

\* one round of the image watermark loop
apply_image_watermark ==
    /\ task.pc = "image"
    /\ \E env \in [out : {"ok", "raise"}, size : ImageSizes] :
         task' = TaskNext(task, task_path, config, env)
    /\ UNCHANGED notTask

\* the resize block
resize_image ==
    /\ task.pc = "resize"
    /\ \E env \in [out : {"ok", "raise"}, size : ImageSizes] :
         task' = TaskNext(task, task_path, config, env)
    /\ UNCHANGED notTask

\* _generate_output_filename
generate_output_filename ==
    /\ task.pc = "filename"
    /\ \E env \in [out : {"ok"}, size : ImageSizes] :
         task' = TaskNext(task, task_path, config, env)
    /\ UNCHANGED notTask

\* engine.save_image
save_image ==
    /\ task.pc = "save"
    /\ \E env \in [out : {"ok", "raise"}, size : ImageSizes] :
         task' = TaskNext(task, task_path, config, env)
    /\ UNCHANGED notTask

\* the return statement of the try block
return_success ==
    /\ task.pc = "return"
    /\ \E env \in [out : {"ok"}, size : ImageSizes] :
         task' = TaskNext(task, task_path, config, env)
    /\ UNCHANGED notTask

\* the except clause: log and return the failed result
return_failure ==
    /\ task.pc = "except"
    /\ \E env \in [out : {"ok"}, size : ImageSizes] :
         task' = TaskNext(task, task_path, config, env)
    /\ UNCHANGED notTask

TaskNextAction ==
    \/ load_image
    \/ extract_exif
    \/ get_exif_bytes
    \/ apply_text_watermark
    \/ apply_image_watermark
    \/ resize_image
    \/ generate_output_filename
    \/ save_image
    \/ return_success
    \/ return_failure

TaskSpec == TaskInit /\ [][TaskNextAction]_vars

(* ---------- the worker threads of one batch, save by save ------------- *)
RECURSIVE RunToSave(_, _, _, _, _)
\* process_single_image run from t up to its engine.save_image call (or to
\* its return, when a call before the save fails)
RunToSave(t, name, cfg, fail, size) ==
    IF t.pc \in {"save", "done"} THEN t
    ELSE RunToSave(TaskNext(t, name, cfg,
                            [out |-> IF StepId(t) = fail.step THEN fail.out ELSE "ok",
                             size |-> size]),
                   name, cfg, fail, size)

\* the ways a task fails before its save
PoolFails ==
    { [step |-> <<"none", 0>>, out |-> "ok"],
      [step |-> <<"load", 0>>, out |-> "missing"] }

\* no file of that name has been written yet
NoFile == [writers |-> {}, data |-> "absent", clash |-> FALSE, owner |-> 0]

\* the file of that name in the output directory
FileAt(dir, path) == IF path \in DOMAIN dir THEN dir[path] ELSE NoFile

\* the output directory with the file of that name replaced
WithFile(dir, path, file) ==
    [q \in DOMAIN dir \cup {path} |-> IF q = path THEN file ELSE dir[q]]

\* process_batch has filtered the paths and submitted one task per path
PoolInit ==
    /\ BatchInit
    /\ input_paths \in InputLists
    /\ max_workers \in 1..MaxWorkers
    /\ config \in Configs
    /\ task_path = <<>>
    /\ task = None
    /\ engine_call = NoCall
    /\ pool = [f \in 1..Len(SelectSeq(input_paths, IsValidPath)) |->
                  [state |-> "pending", name |-> SelectSeq(input_paths, IsValidPath)[f],
                   task |-> NewTask]]
    /\ output_dir = <<>>
    /\ FontIdle
    /\ NoGui

\* a worker thread takes the oldest pending work item and runs
\* process_single_image up to the save
pool_worker_start ==
    /\ Cardinality({g \in DOMAIN pool : pool[g].state \in {"running", "saving"}}) < max_workers
    /\ \E f \in DOMAIN pool, fail \in PoolFails, size \in BatchSizes :
         /\ pool[f].state = "pending"
         /\ \A g \in 1..(f - 1) : pool[g].state # "pending"
         /\ pool' = [pool EXCEPT ![f].state = "running",
                                 ![f].task = RunToSave(NewTask, pool[f].name, config, fail, size)]
    /\ UNCHANGED output_dir
    /\ UNCHANGED notPool

\* engine.save_image opens the output path for writing, truncating the file
pool_save_open ==
    /\ \E f \in DOMAIN pool :
         /\ pool[f].state = "running"
         /\ pool[f].task.pc = "save"
         /\ LET path == pool[f].task.output_filename.val
                file == FileAt(output_dir, path)
            IN output_dir' = WithFile(output_dir, path,
                                    [writers |-> file.writers \cup {f}, data |-> "partial",
                                     clash |-> file.writers # {}, owner |-> f])
         /\ pool' = [pool EXCEPT ![f].state = "saving"]
    /\ UNCHANGED notPool

\* engine.save_image finishes: the encoder has written its bytes and the file
\* is closed (or the write raised); the task returns its ProcessingResult.
\* Bytes of two writers of one path that were open together may interleave.
pool_save_close ==
    /\ \E f \in DOMAIN pool, out \in {"ok", "raise"}, size \in BatchSizes :
         /\ pool[f].state = "saving"
         /\ LET path == pool[f].task.output_filename.val
                file == FileAt(output_dir, path)
                done == RunTask(pool[f].task, pool[f].name, config,
                                [step |-> <<"save", 0>>, out |-> out], size)
            IN /\ pool' = [pool EXCEPT ![f].state = "done", ![f].task = done]
               /\ \E data \in (IF out = "raise" THEN {"partial"}
                               ELSE IF file.clash THEN {"complete", "corrupt"}
                               ELSE {"complete"}) :
                     output_dir' = WithFile(output_dir, path,
                                       [writers |-> file.writers \ {f}, data |-> data,
                                        clash |-> file.clash, owner |-> f])
    /\ UNCHANGED notPool

\* a task that failed before its save returns its failed ProcessingResult
pool_task_failed ==
    /\ \E f \in DOMAIN pool :
         /\ pool[f].state = "running"
         /\ pool[f].task.pc = "done"
         /\ pool' = [pool EXCEPT ![f].state = "done"]
    /\ UNCHANGED output_dir
    /\ UNCHANGED notPool

PoolNext ==
    \/ pool_worker_start
    \/ pool_save_open
    \/ pool_save_close
    \/ pool_task_failed

PoolSpec == PoolInit /\ [][PoolNext]_vars

(* --------------- direct calls of the pure operations ------------------ *)
\* Fractional values (opacity, scale factors) are written in hundredths:
\* the float 0.5 is the integer 50.  The operations keep no state between
\* calls, so a behaviour makes one call, with any of the arguments.

(* ------------------------- models/schemas.py -------------------------- *)
\* the Field(ge=..., le=...) constraints of TextWatermarkConfig
TextWatermarkConfigFields ==
    [ font_size     |-> [ge |-> 8, le |-> 500],
      opacity       |-> [ge |-> 0, le |-> 100],
      rotation      |-> [ge |-> -360, le |-> 360],
      margin        |-> [ge |-> 0, le |-> 500],
      shadow_offset |-> [ge |-> 0, le |-> 20],
      outline_width |-> [ge |-> 1, le |-> 10],
      tile_spacing  |-> [ge |-> 10, le |-> 500],
      scale_factor  |-> [ge |-> 1, le |-> 50] ]

\* the Field(ge=..., le=...) constraints of ImageWatermarkConfig
ImageWatermarkConfigFields ==
    [ opacity      |-> [ge |-> 0, le |-> 100],
      rotation     |-> [ge |-> -360, le |-> 360],
      margin       |-> [ge |-> 0, le |-> 500],
      scale        |-> [ge |-> 1, le |-> 100],
      tile_spacing |-> [ge |-> 20, le |-> 500] ]

\* the Field(default=...) values of the constrained fields of TextWatermarkConfig
TextWatermarkConfigDefaults ==
    [ font_size |-> 36, opacity |-> 50, rotation |-> 0, margin |-> 20, shadow_offset |-> 2,
      outline_width |-> 1, tile_spacing |-> 100, scale_factor |-> 8 ]

\* the Field(default=...) values of the constrained fields of ImageWatermarkConfig
ImageWatermarkConfigDefaults ==
    [ opacity |-> 50, rotation |-> 0, margin |-> 20, scale |-> 15, tile_spacing |-> 150 ]

\* pydantic's check of one value against its field's ge / le (mutant: the
\* lower bound is not checked)
FieldAccepts_upperOnly(constraint, value) == value <= constraint.le

\* pydantic's check of one value against its field's ge / le
FieldAccepts(constraint, value) == value >= constraint.ge /\ value <= constraint.le

\* BaseModel.__init__: the keyword arguments over the defaults, validated
\* field by field; a ValidationError when a value is refused
ModelInit(fields, defaults, kwargs) ==
    LET values == [f \in DOMAIN defaults |->
                      IF f \in DOMAIN kwargs THEN kwargs[f] ELSE defaults[f]]
    IN IF \A f \in DOMAIN fields : FieldAccepts(fields[f], values[f])
       THEN [raised |-> FALSE, value |-> values]
       ELSE [raised |-> TRUE, value |-> "ValidationError"]

\* TextWatermarkConfig(**kwargs)
NewTextWatermarkConfig(kwargs) ==
    ModelInit(TextWatermarkConfigFields, TextWatermarkConfigDefaults, kwargs)

\* ImageWatermarkConfig(**kwargs)
NewImageWatermarkConfig(kwargs) ==
    ModelInit(ImageWatermarkConfigFields, ImageWatermarkConfigDefaults, kwargs)

\* the values a caller hands to the constructors: inside, on and outside
\* the limits of each field
OpacityInputs == {-1, 0, 50, 100, 101}
FontSizeInputs == {7, 8, 36, 500, 501}
RotationInputs == {-361, -360, 0, 45, 360, 361}

\* a caller constructs a TextWatermarkConfig
new_TextWatermarkConfig ==
    /\ engine_call.op = "none"
    /\ \E o \in OpacityInputs, fs \in FontSizeInputs, r \in RotationInputs :
          LET kwargs == [opacity |-> o, font_size |-> fs, rotation |-> r]
          IN engine_call' = [op |-> "TextWatermarkConfig", kwargs |-> kwargs,
                             res |-> NewTextWatermarkConfig(kwargs)]
    /\ UNCHANGED notEngine

\* a caller constructs an ImageWatermarkConfig
new_ImageWatermarkConfig ==
    /\ engine_call.op = "none"
    /\ \E o \in OpacityInputs, r \in RotationInputs :
          LET kwargs == [opacity |-> o, rotation |-> r]
          IN engine_call' = [op |-> "ImageWatermarkConfig", kwargs |-> kwargs,
                             res |-> NewImageWatermarkConfig(kwargs)]
    /\ UNCHANGED notEngine

(* ------------------- config.py, watermark_engine.py ------------------- *)
\* config.POSITION_MAP: the (x, y) factors of the nine anchors, in hundredths
POSITION_MAP ==
    [p \in {"top-left", "top-center", "top-right", "middle-left", "center", "middle-right",
            "bottom-left", "bottom-center", "bottom-right"} |->
       CASE p = "top-left" -> <<0, 0>>
         [] p = "top-center" -> <<50, 0>>
         [] p = "top-right" -> <<100, 0>>
         [] p = "middle-left" -> <<0, 50>>
         [] p = "center" -> <<50, 50>>
         [] p = "middle-right" -> <<100, 50>>
         [] p = "bottom-left" -> <<0, 100>>
         [] p = "bottom-center" -> <<50, 100>>
         [] p = "bottom-right" -> <<100, 100>>]

\* mutant: the far edge ignores the margin
AxisOffset_noMargin(factor, img, wm, margin) ==
    IF factor = 0 THEN margin
    ELSE IF factor = 50 THEN (img - wm) \div 2
    ELSE img - wm

\* calculate_position: the offset along one axis (// is floor division)
AxisOffset(factor, img, wm, margin) ==
    IF factor = 0 THEN margin
    ELSE IF factor = 50 THEN (img - wm) \div 2
    ELSE img - wm - margin

\* mutant: the offsets are kept inside the canvas
CalculatePosition_clamped(image_size, watermark_size, position, margin, custom_x, custom_y) ==
    LET pos == IF position \notin DOMAIN POSITION_MAP THEN "bottom-right" ELSE position
        factors == POSITION_MAP[pos]
        raw == IF position = "custom" /\ custom_x.some /\ custom_y.some
               THEN <<custom_x.val, custom_y.val>>
               ELSE << AxisOffset(factors[1], image_size[1], watermark_size[1], margin),
                       AxisOffset(factors[2], image_size[2], watermark_size[2], margin) >>
    IN << IF raw[1] < 0 THEN 0 ELSE IF raw[1] > image_size[1] THEN image_size[1] ELSE raw[1],
          IF raw[2] < 0 THEN 0 ELSE IF raw[2] > image_size[2] THEN image_size[2] ELSE raw[2] >>

\* WatermarkEngine.calculate_position
CalculatePosition(image_size, watermark_size, position, margin, custom_x, custom_y) ==
    IF position = "custom" /\ custom_x.some /\ custom_y.some
    THEN <<custom_x.val, custom_y.val>>
    ELSE LET pos == IF position \notin DOMAIN POSITION_MAP THEN "bottom-right" ELSE position
             factors == POSITION_MAP[pos]
         IN << AxisOffset(factors[1], image_size[1], watermark_size[1], margin),
               AxisOffset(factors[2], image_size[2], watermark_size[2], margin) >>

\* the arguments handed to calculate_position
PositionImageSizes == { <<800, 600>>, <<8, 6>> }
PositionOverlaySizes == { <<100, 50>>, <<3, 3>>, <<11, 9>> }
PositionMargins == {0, 3, 20}
PositionNames == DOMAIN POSITION_MAP \cup {"custom", "tile", "nowhere"}
PositionCustoms == { None, Some(7), Some(0), Some(-5), Some(1000) }

\* a caller asks the engine for the position of an overlay
calculate_position ==
    /\ engine_call.op = "none"
    /\ \E image_size \in PositionImageSizes, watermark_size \in PositionOverlaySizes,
          position \in PositionNames, margin \in PositionMargins,
          custom_x \in PositionCustoms, custom_y \in PositionCustoms :
          engine_call' = [op |-> "calculate_position", image_size |-> image_size,
                          watermark_size |-> watermark_size, position |-> position,
                          margin |-> margin, custom_x |-> custom_x, custom_y |-> custom_y,
                          res |-> CalculatePosition(image_size, watermark_size, position,
                                                    margin, custom_x, custom_y)]
    /\ UNCHANGED notEngine

(* ------------- buffers, layers and compositing (frames) --------------- *)
\* A buffer is an object on the heap (a sequence of buffers, an object's
\* identity being its index): its mode, its size and the rectangles painted
\* on it so far, each with the place and the size of the overlay it is cut from.
Max2(a, b) == IF a >= b THEN a ELSE b
Min2(a, b) == IF a <= b THEN a ELSE b

\* Image.new('RGBA', size, (0, 0, 0, 0))
BlankLayer(size) == [mode |-> "RGBA", size |-> size, paint |-> <<>>]

\* mutant: the pasted rectangle is not cut to the canvas
PasteBox_unclipped(size, wm_size, position) ==
    << position[1], position[2], position[1] + wm_size[1], position[2] + wm_size[2] >>

\* Image.paste: the part (x0, y0, x1, y1) of the pasted rectangle on the canvas
PasteBox(size, wm_size, position) ==
    << Max2(0, position[1]), Max2(0, position[2]),
       Min2(size[1], position[1] + wm_size[1]), Min2(size[2], position[2] + wm_size[2]) >>

\* layer.paste(watermark, position, watermark): in place, nothing when the
\* rectangle misses the canvas
Paste(layer, watermark, position) ==
    LET box == PasteBox(layer.size, watermark.size, position)
    IN IF box[1] >= box[3] \/ box[2] >= box[4] THEN layer
       ELSE [layer EXCEPT !.paint = Append(@, [box |-> box, at |-> position,
                                               size |-> watermark.size])]

\* Image.alpha_composite(im1, im2): a new buffer, im2 over im1
AlphaComposite(im1, im2) ==
    [mode |-> "RGBA", size |-> im1.size, paint |-> im1.paint \o im2.paint]

\* Image.alpha_composite accepts two RGBA buffers of one size
AlphaCompositeOk(im1, im2) ==
    im1.mode = "RGBA" /\ im2.mode = "RGBA" /\ im1.size = im2.size

ErrMismatch == "images do not match"

\* an operation returns the object ret / raises
Returned(h, obj) == [heap |-> h, ret |-> obj, exc |-> None]
Raised(h, message) == [heap |-> h, ret |-> 0, exc |-> Some(message)]

\* WatermarkEngine.composite_watermark
CompositeWatermark(h, base_image, watermark, position) ==
    LET result == Len(h) + 1
        watermark_layer == Len(h) + 2
        h1 == h \o << h[base_image], BlankLayer(h[base_image].size) >>
        h2 == [h1 EXCEPT ![watermark_layer] = Paste(@, h1[watermark], position)]
    IN IF AlphaCompositeOk(h2[result], h2[watermark_layer])
       THEN Returned(Append(h2, AlphaComposite(h2[result], h2[watermark_layer])), Len(h2) + 1)
       ELSE Raised(h2, ErrMismatch)

RECURSIVE TileXs(_, _, _)
\* create_tile_pattern, inner loop: the x of the tiles of one row
TileXs(x, step_x, img_w) ==
    IF x < img_w THEN <<x>> \o TileXs(x + step_x, step_x, img_w) ELSE <<>>

\* mutant: every row starts at the same x
TileRowOffset_aligned(row, step_x) == 0

\* create_tile_pattern: x_offset = (step_x // 2) if row % 2 else 0
TileRowOffset(row, step_x) == IF row % 2 # 0 THEN step_x \div 2 ELSE 0

RECURSIVE TileRows(_, _, _, _, _)
\* create_tile_pattern, outer loop: the positions pasted from row y on
TileRows(y, row, wm_size, image_size, spacing) ==
    IF y < image_size[2]
    THEN LET step_x == wm_size[1] + spacing
             xs == TileXs(spacing + TileRowOffset(row, step_x), step_x, image_size[1])
         IN [k \in 1..Len(xs) |-> [x |-> xs[k], y |-> y, row |-> row]]
            \o TileRows(y + wm_size[2] + spacing, row + 1, wm_size, image_size, spacing)
    ELSE <<>>

\* mutant: the first copy sits in the corner of the canvas
TilePositions_fromOrigin(wm_size, image_size, spacing) == TileRows(0, 0, wm_size, image_size, spacing)

\* create_tile_pattern: the positions of the pasted copies, in paste order
TilePositions(wm_size, image_size, spacing) == TileRows(spacing, 0, wm_size, image_size, spacing)

\* the paste was not cut away whole
PasteVisible(entry) == entry.box[1] < entry.box[3] /\ entry.box[2] < entry.box[4]

\* create_tile_pattern: the pastes onto the tile layer, one per position, in
\* order (a paste that misses the canvas leaves no trace)
PasteAll(layer, watermark, positions) ==
    [layer EXCEPT !.paint = @ \o
        SelectSeq([k \in 1..Len(positions) |->
                      [box |-> PasteBox(layer.size, watermark.size,
                                        <<positions[k].x, positions[k].y>>),
                       at |-> <<positions[k].x, positions[k].y>>,
                       size |-> watermark.size]],
                  PasteVisible)]

\* WatermarkEngine.create_tile_pattern
CreateTilePattern(h, watermark, image_size, spacing) ==
    Returned(Append(h, PasteAll(BlankLayer(image_size), h[watermark],
                                TilePositions(h[watermark].size, image_size, spacing))),
             Len(h) + 1)

\* if image.mode != 'RGBA': image = image.convert('RGBA')
EnsureRGBA(h, image) ==
    IF h[image].mode # "RGBA"
    THEN Returned(Append(h, [h[image] EXCEPT !.mode = "RGBA"]), Len(h) + 1)
    ELSE Returned(h, image)

\* the tail shared by apply_text_watermark and apply_image_watermark: tile
\* mode, or one overlay at the computed position
PlaceOverlay(h, image, watermark, cfg) ==
    IF cfg.position = "tile"
    THEN LET t == CreateTilePattern(h, watermark, h[image].size, cfg.tile_spacing)
         IN IF AlphaCompositeOk(t.heap[image], t.heap[t.ret])
            THEN Returned(Append(t.heap, AlphaComposite(t.heap[image], t.heap[t.ret])),
                          Len(t.heap) + 1)
            ELSE Raised(t.heap, ErrMismatch)
    ELSE CompositeWatermark(h, image, watermark,
                            CalculatePosition(h[image].size, h[watermark].size, cfg.position,
                                              cfg.margin, cfg.custom_x, cfg.custom_y))

\* TextWatermark.apply_text_watermark; create_text_watermark hands back an
\* overlay whose size follows from the font's metrics (overlay_size)
TextWatermarkApply(h, image, cfg, overlay_size) ==
    LET c == EnsureRGBA(h, image)
        h1 == Append(c.heap, BlankLayer(overlay_size))
    IN PlaceOverlay(h1, c.ret, Len(h1), cfg)

\* ImageWatermark.prepare_logo: the size the logo is resized to (int()
\* truncates)
PrepareLogoSize(logo_size, cfg, target_size) ==
    LET target_width == (Min2(target_size[1], target_size[2]) * cfg.scale) \div 100
    IN IF cfg.maintain_aspect_ratio
       THEN << target_width, (target_width * logo_size[2]) \div logo_size[1] >>
       ELSE << target_width, target_width >>

\* WatermarkEngine.rotate_image, expand=True, for the right angles
RotatedSize(size, angle) == IF angle = 90 THEN << size[2], size[1] >> ELSE size

\* ImageWatermark.apply_image_watermark with a logo of size logo_size loaded
ImageWatermarkApply(h, image, cfg, logo_size) ==
    LET c == EnsureRGBA(h, image)
        new_size == PrepareLogoSize(logo_size, cfg, c.heap[c.ret].size)
        h1 == Append(c.heap, BlankLayer(logo_size))
    IN IF new_size[1] <= 0 \/ new_size[2] <= 0 THEN Raised(h1, ErrResize)
       ELSE LET h2 == Append(h1, BlankLayer(RotatedSize(new_size, cfg.rotation)))
            IN PlaceOverlay(h2, c.ret, Len(h2), cfg)

\* ImageWatermark.prepare_logo for an RGBA logo (load_logo hands back no
\* other): the operations applied in order, the size asked of resize and the
\* size of the logo handed back; resize refuses a size that is not positive
PrepareLogo(logo_size, cfg, target_size) ==
    LET new_size == PrepareLogoSize(logo_size, cfg, target_size)
    IN IF new_size[1] <= 0 \/ new_size[2] <= 0
       THEN [exc |-> Some(ErrResize), new_size |-> new_size, size |-> logo_size,
             steps |-> << >>]
       ELSE [exc |-> None, new_size |-> new_size,
             size |-> IF cfg.rotation # 0 THEN RotatedSize(new_size, cfg.rotation)
                      ELSE new_size,
             steps |-> << "resize" >>
                       \o (IF cfg.grayscale THEN << "convert_to_grayscale" >> ELSE << >>)
                       \o << "apply_opacity" >>
                       \o (IF cfg.rotation # 0 THEN << "rotate_image" >> ELSE << >>)]

\* the buffers and placements handed to the compositing operations
FrameSizes == { <<800, 600>>, <<50, 40>> }
FrameModes == { "RGB", "RGBA" }
OverlaySizes == { <<100, 50>>, <<900, 50>> }
CompositePositions == { <<680, 530>>, <<-30, -20>>, <<790, 590>>, <<800, 0>>, <<-900, -50>> }
FramePositionNames == { "top-left", "center", "bottom-right", "custom", "tile" }
FrameCustoms == { None, Some(-30), Some(790) }
LogoSizes == { <<200, 100>>, <<200, 10>> }
LogoScales == { 1, 15, 100 }

\* a loaded image
BaseBuffer(mode, size) == [mode |-> mode, size |-> size, paint |-> <<>>]

\* a caller composites an overlay onto an RGBA base
composite_watermark ==
    /\ engine_call.op = "none"
    /\ \E size \in FrameSizes, wm_size \in OverlaySizes, position \in CompositePositions :
          LET h == << BaseBuffer("RGBA", size), BlankLayer(wm_size) >>
          IN engine_call' = [op |-> "composite_watermark", base |-> h[1], image |-> 1,
                             overlay |-> wm_size, position |-> "custom",
                             out |-> CompositeWatermark(h, 1, 2, position)]
    /\ UNCHANGED notEngine

\* a caller applies a text watermark to a loaded image
text_watermark_apply ==
    /\ engine_call.op = "none"
    /\ \E mode \in FrameModes, size \in FrameSizes, wm_size \in OverlaySizes,
          position \in FramePositionNames, custom \in FrameCustoms :
          LET h == << BaseBuffer(mode, size) >>
              cfg == [position |-> position, margin |-> 20, custom_x |-> custom,
                      custom_y |-> custom, tile_spacing |-> 100]
          IN engine_call' = [op |-> "apply_text_watermark", base |-> h[1], image |-> 1,
                             overlay |-> wm_size, position |-> position,
                             out |-> TextWatermarkApply(h, 1, cfg, wm_size)]
    /\ UNCHANGED notEngine

\* a caller applies a logo watermark to a loaded image
image_watermark_apply ==
    /\ engine_call.op = "none"
    /\ \E mode \in FrameModes, size \in FrameSizes, logo_size \in LogoSizes,
          position \in FramePositionNames, custom \in FrameCustoms,
          scale \in LogoScales, maintain \in BOOLEAN, rotation \in {0, 90} :
          LET h == << BaseBuffer(mode, size) >>
              cfg == [position |-> position, margin |-> 20, custom_x |-> custom,
                      custom_y |-> custom, tile_spacing |-> 150, scale |-> scale,
                      maintain_aspect_ratio |-> maintain, rotation |-> rotation]
          IN engine_call' = [op |-> "apply_image_watermark", base |-> h[1], image |-> 1,
                             overlay |-> logo_size, position |-> position,
                             out |-> ImageWatermarkApply(h, 1, cfg, logo_size)]
    /\ UNCHANGED notEngine

\* a caller prepares a loaded logo for a target
prepare_logo ==
    /\ engine_call.op = "none"
    /\ \E logo_size \in LogoSizes, target_size \in FrameSizes, scale \in LogoScales,
          maintain \in BOOLEAN, grayscale \in BOOLEAN, rotation \in {0, 90} :
          LET cfg == [scale |-> scale, maintain_aspect_ratio |-> maintain,
                      grayscale |-> grayscale, opacity |-> 50, rotation |-> rotation]
          IN engine_call' = [op |-> "prepare_logo", logo_size |-> logo_size, cfg |-> cfg,
                             target_size |-> target_size,
                             res |-> PrepareLogo(logo_size, cfg, target_size)]
    /\ UNCHANGED notEngine

\* the overlays, canvases and spacings handed to create_tile_pattern
TileOverlaySizes == { <<50, 50>>, <<100, 50>>, <<75, 30>> }
TileCanvasSizes == { <<300, 300>>, <<800, 600>>, <<301, 251>>, <<100, 100>> }
TileSpacings == { 0, 10, 20, 100, 150 }

\* a caller asks the engine for a tile layer
create_tile_pattern ==
    /\ engine_call.op = "none"
    /\ \E wm_size \in TileOverlaySizes, image_size \in TileCanvasSizes, spacing \in TileSpacings :
          engine_call' = [op |-> "create_tile_pattern", overlay |-> wm_size,
                          image_size |-> image_size, spacing |-> spacing,
                          positions |-> TilePositions(wm_size, image_size, spacing),
                          out |-> CreateTilePattern(<< BlankLayer(wm_size) >>, 1,
                                                    image_size, spacing)]
    /\ UNCHANGED notEngine

(* ------------------- pixels: opacity and grayscale -------------------- *)
\* A pixel buffer has a mode, a size and its pixels <<r, g, b, a>> row by row
\* (an RGB buffer has no alpha band: its pixels read as opaque).

\* image.convert('RGBA')
ConvertRGBA(image) ==
    IF image.mode = "RGBA" THEN image
    ELSE [mode |-> "RGBA", size |-> image.size,
          px |-> [k \in DOMAIN image.px |->
                     <<image.px[k][1], image.px[k][2], image.px[k][3], 255>>]]

\* image.split(): the band c of the buffer
Band(image, c) == [k \in DOMAIN image.px |-> image.px[k][c]]

\* Image.merge('RGBA', (r, g, b, a))
MergeRGBA(size, r, g, b, a) ==
    [mode |-> "RGBA", size |-> size,
     px |-> [k \in DOMAIN r |-> <<r[k], g[k], b[k], a[k]>>]]

\* mutant: the scaled alpha is rounded to the nearest integer
OpacityOfAlpha_rounded(x, opacity) == (x * opacity + 50) \div 100

\* lambda x: int(x * opacity), opacity in hundredths (int() truncates; the
\* product is not negative)
OpacityOfAlpha(x, opacity) == (x * opacity) \div 100

\* WatermarkEngine.apply_opacity
ApplyOpacity(image, opacity) ==
    LET rgba == ConvertRGBA(image)
        a == [k \in DOMAIN rgba.px |-> OpacityOfAlpha(Band(rgba, 4)[k], opacity)]
    IN MergeRGBA(rgba.size, Band(rgba, 1), Band(rgba, 2), Band(rgba, 3), a)

\* the pixels of the buffers handed to the pixel operations
PixelColours == { <<255, 0, 0>>, <<10, 200, 30>> }
PixelAlphas == { 0, 1, 127, 128, 255 }
Pixels == { <<c[1], c[2], c[3], a>> : c \in PixelColours, a \in PixelAlphas }

\* the buffers handed to the pixel operations: two pixels side by side
PixelImages ==
    { [mode |-> "RGBA", size |-> <<2, 1>>, px |-> <<p, q>>] : p \in Pixels, q \in Pixels }
    \cup { [mode |-> "RGB", size |-> <<1, 1>>, px |-> << <<c[1], c[2], c[3], 255>> >>] :
             c \in PixelColours }

\* the opacities handed to apply_opacity, in hundredths: binary fractions,
\* for which the float product x * opacity is exact
Opacities == { 0, 25, 50, 75, 100 }

\* a caller applies an opacity to a buffer
apply_opacity ==
    /\ engine_call.op = "none"
    /\ \E image \in PixelImages, opacity \in Opacities :
          engine_call' = [op |-> "apply_opacity", image |-> image, opacity |-> opacity,
                          res |-> ApplyOpacity(image, opacity)]
    /\ UNCHANGED notEngine

(* ------------------------------ resizing ------------------------------ *)
\* WatermarkEngine.resize_image called on a buffer of that size: the same
\* object when no dimension is given, else a new buffer of the computed size
\* (Image.resize refuses a size with a zero dimension)
EngineResizeImage(size, width, height, maintain_aspect) ==
    LET new_size == ResizedSize(size, width, height, maintain_aspect)
    IN IF ~width.some /\ ~height.some THEN [same |-> TRUE, size |-> size, exc |-> None]
       ELSE IF new_size[1] <= 0 \/ new_size[2] <= 0
            THEN [same |-> FALSE, size |-> size, exc |-> Some(ErrResize)]
            ELSE [same |-> FALSE, size |-> new_size, exc |-> None]

\* the sizes and targets handed to resize_image
ResizeSizes == { <<800, 600>>, <<600, 800>>, <<8, 6>>, <<8, 1>>, <<50, 50>> }
ResizeTargets == { None, Some(400), Some(4), Some(100), Some(1000) }

\* a caller resizes a buffer
engine_resize_image ==
    /\ engine_call.op = "none"
    /\ \E size \in ResizeSizes, width \in ResizeTargets, height \in ResizeTargets,
          maintain_aspect \in BOOLEAN :
          engine_call' = [op |-> "resize_image", size |-> size, width |-> width,
                          height |-> height, maintain_aspect |-> maintain_aspect,
                          res |-> EngineResizeImage(size, width, height, maintain_aspect)]
    /\ UNCHANGED notEngine

(* ----------------------- core/text_watermark.py ----------------------- *)
\* Texts are tuples of characters.  A value of the EXIF map is a text
\* ([str |-> ...]) or an integer ([int |-> ...]).

\* _replace_exif_placeholders: the placeholders dictionary, in its order
ExifPlaceholders ==
    << [token |-> <<"{", "d", "a", "t", "e", "}">>, key |-> "date"],
       [token |-> <<"{", "t", "i", "m", "e", "}">>, key |-> "time"],
       [token |-> <<"{", "d", "a", "t", "e", "t", "i", "m", "e", "}">>, key |-> "datetime"],
       [token |-> <<"{", "c", "a", "m", "e", "r", "a", "}">>, key |-> "camera_model"],
       [token |-> <<"{", "m", "a", "k", "e", "}">>, key |-> "camera_make"],
       [token |-> <<"{", "l", "e", "n", "s", "}">>, key |-> "lens_model"],
       [token |-> <<"{", "a", "p", "e", "r", "t", "u", "r", "e", "}">>, key |-> "aperture"],
       [token |-> <<"{", "s", "h", "u", "t", "t", "e", "r", "}">>, key |-> "shutter_speed"],
       [token |-> <<"{", "i", "s", "o", "}">>, key |-> "iso"],
       [token |-> <<"{", "f", "o", "c", "a", "l", "_", "l", "e", "n", "g", "t", "h", "}">>, key |-> "focal_length"],
       [token |-> <<"{", "c", "o", "p", "y", "r", "i", "g", "h", "t", "}">>, key |-> "copyright"],
       [token |-> <<"{", "a", "r", "t", "i", "s", "t", "}">>, key |-> "artist"],
       [token |-> <<"{", "f", "i", "l", "e", "n", "a", "m", "e", "}">>, key |-> "filename"],
       [token |-> <<"{", "w", "i", "d", "t", "h", "}">>, key |-> "width"],
       [token |-> <<"{", "h", "e", "i", "g", "h", "t", "}">>, key |-> "height"] >>

RECURSIVE Digits(_)
\* str(n) of a natural number
Digits(n) ==
    LET d == <<"0", "1", "2", "3", "4", "5", "6", "7", "8", "9">>
    IN IF n < 10 THEN << d[n + 1] >> ELSE Digits(n \div 10) \o << d[(n % 10) + 1] >>

\* str(value)
PyStr(value) == IF "int" \in DOMAIN value THEN Digits(value.int) ELSE value.str

\* exif_data.get(key, '')
ExifGet(exif_data, key) == IF key \in DOMAIN exif_data THEN exif_data[key] ELSE [str |-> <<>>]

RECURSIVE StrReplace(_, _, _)
\* s.replace(old, new)
StrReplace(s, old, new) ==
    IF Len(s) < Len(old) THEN s
    ELSE IF SubSeq(s, 1, Len(old)) = old
         THEN new \o StrReplace(SubSeq(s, Len(old) + 1, Len(s)), old, new)
         ELSE << s[1] >> \o StrReplace(SubSeq(s, 2, Len(s)), old, new)

RECURSIVE ReplaceFrom(_, _, _)
\* _replace_exif_placeholders: the loop over the dictionary, from entry k on
ReplaceFrom(text, exif_data, k) ==
    IF k > Len(ExifPlaceholders) THEN text
    ELSE ReplaceFrom(StrReplace(text, ExifPlaceholders[k].token,
                                PyStr(ExifGet(exif_data, ExifPlaceholders[k].key))),
                     exif_data, k + 1)

\* TextWatermark._replace_exif_placeholders
ReplaceExifPlaceholders(text, exif_data) == ReplaceFrom(text, exif_data, 1)

\* Python's truth value of the exif_data argument: None and the empty dict
\* are false
ExifTruthy(exif_data) == exif_data.some /\ DOMAIN exif_data.val # {}

\* create_text_watermark: the text that is drawn
WatermarkText(cfg, exif_data) ==
    IF cfg.use_exif /\ ExifTruthy(exif_data)
    THEN ReplaceExifPlaceholders(cfg.text, exif_data.val)
    ELSE cfg.text

\* mutant: the scaled font size has no lower limit
WatermarkFontSize_unbounded(cfg, image_size) ==
    IF cfg.scale_with_image
    THEN (Min2(image_size[1], image_size[2]) * cfg.scale_factor) \div 100
    ELSE cfg.font_size

\* create_text_watermark: the font size used (scale_factor in hundredths)
WatermarkFontSize(cfg, image_size) ==
    IF cfg.scale_with_image
    THEN Max2(12, (Min2(image_size[1], image_size[2]) * cfg.scale_factor) \div 100)
    ELSE cfg.font_size

\* create_text_watermark: the padding around the text, with room for the effects
TextPadding(cfg) ==
    20 + (IF cfg.shadow THEN cfg.shadow_offset * 2 ELSE 0)
       + (IF cfg.outline THEN cfg.outline_width * 2 ELSE 0)

\* create_text_watermark: the overlay allocated for a text whose bounding box
\* is bbox = (left, top, right, bottom)
TextOverlaySize(cfg, bbox) ==
    << (bbox[3] - bbox[1]) + TextPadding(cfg) * 2, (bbox[4] - bbox[2]) + TextPadding(cfg) * 2 >>

\* TextWatermark.create_text_watermark: what is drawn, at which font size, on
\* an overlay of which size, and the size of the overlay handed back
CreateTextWatermark(cfg, image_size, exif_data, bbox) ==
    [text |-> WatermarkText(cfg, exif_data),
     font_size |-> WatermarkFontSize(cfg, image_size),
     drawn_size |-> TextOverlaySize(cfg, bbox),
     size |-> IF cfg.rotation # 0 THEN RotatedSize(TextOverlaySize(cfg, bbox), cfg.rotation)
              ELSE TextOverlaySize(cfg, bbox)]

RECURSIVE Flatten(_)
\* the text made of the pieces
Flatten(pieces) == IF pieces = <<>> THEN <<>> ELSE Head(pieces) \o Flatten(Tail(pieces))

\* the watermark texts handed to create_text_watermark, piece by piece
TextPieces ==
    { << <<"{", "d", "a", "t", "e", "}">> >>,
      << <<"b", "y", " ">>, <<"{", "c", "a", "m", "e", "r", "a", "}">> >>,
      << <<"{", "d", "a", "t", "e", "}">>, <<" ">>, <<"{", "i", "s", "o", "}">>, <<"!">> >>,
      << <<"{", "w", "i", "d", "t", "h", "}">>, <<"x">>, <<"{", "h", "e", "i", "g", "h", "t", "}">> >>,
      << <<"{", "b", "o", "g", "u", "s", "}">>, <<"{", "d", "a", "t", "e", "}">> >>,
      << <<"A">> >> }

\* the EXIF maps handed to create_text_watermark
ExifMaps ==
    { None,
      Some(<<>>),
      Some([k \in {"date"} |-> [str |-> <<"D", "1">>]]),
      Some([k \in {"camera_model", "width", "height"} |->
              IF k = "camera_model" THEN [str |-> <<"X", "7">>]
              ELSE IF k = "width" THEN [int |-> 800] ELSE [int |-> 6]]),
      Some([k \in {"iso", "filename"} |->
              IF k = "iso" THEN [str |-> <<"I", "S", "O", " ", "1">>]
              ELSE [str |-> <<"a", ".", "j", "p", "g">>]]) }

\* the sizes and effects of the text watermarks handed to create_text_watermark
TextStyles ==
    { [font_size |-> 36, scale_factor |-> 8, shadow |-> FALSE, shadow_offset |-> 2,
       outline |-> FALSE, outline_width |-> 1, rotation |-> 0],
      [font_size |-> 8, scale_factor |-> 50, shadow |-> TRUE, shadow_offset |-> 2,
       outline |-> FALSE, outline_width |-> 1, rotation |-> 0],
      [font_size |-> 36, scale_factor |-> 1, shadow |-> FALSE, shadow_offset |-> 5,
       outline |-> TRUE, outline_width |-> 3, rotation |-> 90],
      [font_size |-> 500, scale_factor |-> 25, shadow |-> TRUE, shadow_offset |-> 20,
       outline |-> TRUE, outline_width |-> 10, rotation |-> 0],
      [font_size |-> 36, scale_factor |-> 8, shadow |-> TRUE, shadow_offset |-> 0,
       outline |-> TRUE, outline_width |-> 1, rotation |-> 90] }

\* the bounding boxes textbbox((0, 0), text, font) measures
TextBoxes == { <<0, 0, 100, 30>>, <<2, 7, 64, 25>>, <<0, 0, 0, 0>> }

\* a caller builds a text overlay
create_text_watermark ==
    /\ engine_call.op = "none"
    /\ \E pieces \in TextPieces, exif_data \in ExifMaps, use_exif \in BOOLEAN,
          scale_with_image \in BOOLEAN, image_size \in FrameSizes,
          style \in TextStyles, bbox \in TextBoxes :
          LET cfg == [text |-> Flatten(pieces), use_exif |-> use_exif,
                      font_size |-> style.font_size,
                      scale_with_image |-> scale_with_image,
                      scale_factor |-> style.scale_factor,
                      shadow |-> style.shadow, shadow_offset |-> style.shadow_offset,
                      outline |-> style.outline, outline_width |-> style.outline_width,
                      rotation |-> style.rotation]
          IN engine_call' = [op |-> "create_text_watermark", pieces |-> pieces, cfg |-> cfg,
                             exif_data |-> exif_data, image_size |-> image_size,
                             bbox |-> bbox,
                             res |-> CreateTextWatermark(cfg, image_size, exif_data, bbox)]
    /\ UNCHANGED notEngine

(* ------------------------- grayscale logos ---------------------------- *)
\* Image.convert('L') of an RGB pixel: the ITU-R 601-2 luma, in the fixed
\* point arithmetic of the imaging library
Luma(r, g, b) == (r * 19595 + g * 38470 + b * 7471 + 32768) \div 65536

\* grayscale_rgb.convert('RGBA'): an opaque alpha band is added
GrayRGBA(size, gray) ==
    [mode |-> "RGBA", size |-> size, px |-> [k \in DOMAIN gray |-> <<gray[k], gray[k], gray[k], 255>>]]

\* mutant: the alpha band is not put back
PutAlpha_opaque(image, a) == image

\* grayscale_rgba.putalpha(a): the alpha band is replaced by a
PutAlpha(image, a) ==
    [image EXCEPT !.px = [k \in DOMAIN image.px |->
                             <<image.px[k][1], image.px[k][2], image.px[k][3], a[k]>>]]

ErrUnpack == "not enough values to unpack (expected 4, got 3)"

\* ImageWatermark._convert_to_grayscale
ConvertToGrayscale(image) ==
    IF image.mode # "RGBA" THEN [exc |-> Some(ErrUnpack), image |-> image]
    ELSE LET r == Band(image, 1)
             g == Band(image, 2)
             b == Band(image, 3)
             a == Band(image, 4)
             grayscale == [k \in DOMAIN image.px |-> Luma(r[k], g[k], b[k])]
         IN [exc |-> None, image |-> PutAlpha(GrayRGBA(image.size, grayscale), a)]

\* a caller converts a logo to grayscale
convert_to_grayscale ==
    /\ engine_call.op = "none"
    /\ \E image \in PixelImages :
          engine_call' = [op |-> "convert_to_grayscale", image |-> image,
                          res |-> ConvertToGrayscale(image)]
    /\ UNCHANGED notEngine

(* ----------------------- the calls, together --------------------------- *)
\* no call has been made yet
EngineInit ==
    /\ BatchInit
    /\ input_paths = <<>>
    /\ max_workers = 1
    /\ config = BaseConfig
    /\ task_path = <<>>
    /\ task = None
    /\ engine_call = NoCall
    /\ pool = <<>>
    /\ output_dir = <<>>
    /\ FontIdle
    /\ NoGui

EngineNext ==
    \/ new_TextWatermarkConfig
    \/ new_ImageWatermarkConfig
    \/ calculate_position
    \/ composite_watermark
    \/ text_watermark_apply
    \/ image_watermark_apply
    \/ prepare_logo
    \/ create_tile_pattern
    \/ apply_opacity
    \/ engine_resize_image
    \/ create_text_watermark
    \/ convert_to_grayscale

EngineSpec == EngineInit /\ [][EngineNext]_vars

(* -------------------- WatermarkEngine.get_font ------------------------ *)
\* the number of get_font calls the threads make between them
MaxFontCalls == 3

\* dict: key in d
DictHas(d, k) == \E e \in d : e.key = k

\* dict: d[key]
DictGet(d, k) == (CHOOSE e \in d : e.key = k).font

\* dict: d[key] = value, which adds the item or replaces the value of the key
DictSet(d, k, v) == {e \in d : e.key # k} \cup {[key |-> k, font |-> v]}

\* font_family.lower().replace(" ", "")
FontName(font_family) == SelectSeq(Lower(font_family), LAMBDA c : c # " ")

\* _get_font_paths: the file names tried for a family
FontFileNames(font_family) ==
    << FontName(font_family) \o <<".", "t", "t", "f">>,
       FontName(font_family) \o <<".", "o", "t", "f">>,
       font_family \o <<".", "t", "t", "f">>,
       font_family \o <<".", "o", "t", "f">> >>

\* _get_font_paths: the font directories of the platform
FontDirs(platform) ==
    IF platform = "win32"
    THEN << "C:/Windows/Fonts/", "~/AppData/Local/Microsoft/Windows/Fonts/" >>
    ELSE IF platform = "darwin"
    THEN << "/Library/Fonts/", "/System/Library/Fonts/", "~/Library/Fonts/" >>
    ELSE << "/usr/share/fonts/", "/usr/local/share/fonts/", "~/.fonts/",
            "~/.local/share/fonts/" >>

\* _get_font_paths: every directory with every file name, directory by directory
GetFontPaths(font_family, platform) ==
    LET dirs == FontDirs(platform)
        names == FontFileNames(font_family)
    IN [k \in 1..(Len(dirs) * Len(names)) |->
           [dir |-> dirs[((k - 1) \div Len(names)) + 1],
            file |-> names[((k - 1) % Len(names)) + 1]]]

\* the loop over font_paths: the first path truetype opens, if any
FirstFontPath(font_paths, files) ==
    LET found == SelectSeq(font_paths, LAMBDA q : q \in files)
    IN IF found = <<>> THEN None ELSE Some(found[1])

\* truetype("arial.ttf", size): the font the platform finds under that name
ArialFont == [dir |-> "", file |-> <<"a", "r", "i", "a", "l", ".", "t", "t", "f">>]

\* ImageFont.load_default(): the font built into the library
DefaultFont == [dir |-> "", file |-> <<>>]

\* the font object a load creates: the n-th object, read from source
NewFont(n, source, size) == [id |-> n, source |-> source, size |-> size]

\* the fallback: truetype("arial.ttf") raises OSError where the platform has
\* no such font, and nothing catches it
LoadFallback_uncaught(n, size, env) ==
    IF env.arial THEN [font |-> Some(NewFont(n, ArialFont, size)), exc |-> None]
    ELSE [font |-> None, exc |-> Some("OSError: cannot open resource")]

\* the fallback: truetype("arial.ttf"), and load_default() on OSError
LoadFallback(n, size, env) ==
    IF env.arial THEN [font |-> Some(NewFont(n, ArialFont, size)), exc |-> None]
    ELSE [font |-> Some(NewFont(n, DefaultFont, 0)), exc |-> None]

\* the families and sizes the text watermarks ask for
FamilyArial == <<"A", "r", "i", "a", "l">>
FamilyOpenSans == <<"O", "p", "e", "n", " ", "S">>
FontKeys == { <<FamilyArial, 36>>, <<FamilyOpenSans, 12>> }

\* the platforms, each with some installed fonts
FontEnvs ==
    { [platform |-> "linux", files |-> {}, arial |-> FALSE],
      [platform |-> "win32", files |-> {}, arial |-> TRUE],
      [platform |-> "win32",
       files |-> {[dir |-> "C:/Windows/Fonts/", file |-> <<"a", "r", "i", "a", "l", ".", "t", "t", "f">>]},
       arial |-> TRUE],
      [platform |-> "darwin",
       files |-> {[dir |-> "~/Library/Fonts/", file |-> <<"O", "p", "e", "n", " ", "S", ".", "o", "t", "f">>],
                  [dir |-> "/Library/Fonts/", file |-> <<"o", "p", "e", "n", "s", ".", "o", "t", "f">>]},
       arial |-> FALSE] }

\* a thread that has not called get_font
FontThread == [pc |-> "idle", key |-> <<>>, font |-> None, ret |-> None, exc |-> None,
               hit |-> FALSE]

\* an engine shared by the worker threads, on some platform
FontInit ==
    /\ BatchInit
    /\ input_paths = <<>>
    /\ max_workers \in 1..MaxWorkers
    /\ config = BaseConfig
    /\ task_path = <<>>
    /\ task = None
    /\ engine_call = NoCall
    /\ pool = <<>>
    /\ output_dir = <<>>
    /\ font_cache = {}
    /\ font_threads = [t \in 1..max_workers |-> FontThread]
    /\ font_env \in FontEnvs
    /\ font_loads = 0
    /\ NoGui

\* get_font is called: the cache lookup, and the return of a cached font
get_font_enter ==
    \E t \in DOMAIN font_threads, cache_key \in FontKeys :
        /\ font_threads[t].pc \in {"idle", "returned"}
        /\ font_threads[t].exc = None
        /\ font_loads + Cardinality({u \in DOMAIN font_threads :
                                        font_threads[u].pc \in {"search", "fallback"}})
               < MaxFontCalls
        /\ font_threads' = [font_threads EXCEPT ![t] =
              IF DictHas(font_cache, cache_key)
              THEN [FontThread EXCEPT !.pc = "returned", !.key = cache_key, !.hit = TRUE,
                                      !.ret = Some(DictGet(font_cache, cache_key))]
              ELSE [FontThread EXCEPT !.pc = "search", !.key = cache_key]]
        /\ UNCHANGED << font_cache, font_env, font_loads >>
        /\ UNCHANGED notFont

\* the loop over the font paths of the family
get_font_search ==
    \E t \in DOMAIN font_threads :
        /\ font_threads[t].pc = "search"
        /\ LET font_path == FirstFontPath(GetFontPaths(font_threads[t].key[1], font_env.platform),
                                          font_env.files)
           IN IF font_path.some
              THEN /\ font_threads' = [font_threads EXCEPT ![t].pc = "store",
                          ![t].font = Some(NewFont(font_loads + 1, font_path.val,
                                                   font_threads[t].key[2]))]
                   /\ font_loads' = font_loads + 1
              ELSE /\ font_threads' = [font_threads EXCEPT ![t].pc = "fallback"]
                   /\ UNCHANGED font_loads
        /\ UNCHANGED << font_cache, font_env >>
        /\ UNCHANGED notFont

\* no path could be opened: the default font
get_font_fallback ==
    \E t \in DOMAIN font_threads :
        /\ font_threads[t].pc = "fallback"
        /\ LET loaded == LoadFallback(font_loads + 1, font_threads[t].key[2], font_env)
           IN font_threads' = [font_threads EXCEPT
                  ![t].pc = IF loaded.exc.some THEN "returned" ELSE "store",
                  ![t].font = loaded.font,
                  ![t].exc = loaded.exc]
        /\ font_loads' = font_loads + 1
        /\ UNCHANGED << font_cache, font_env >>
        /\ UNCHANGED notFont

\* self._font_cache[cache_key] = font; return font
get_font_store ==
    \E t \in DOMAIN font_threads :
        /\ font_threads[t].pc = "store"
        /\ font_cache' = DictSet(font_cache, font_threads[t].key, font_threads[t].font.val)
        /\ font_threads' = [font_threads EXCEPT ![t].pc = "returned",
                                                ![t].ret = font_threads[t].font]
        /\ UNCHANGED << font_env, font_loads >>
        /\ UNCHANGED notFont

FontNext ==
    \/ get_font_enter
    \/ get_font_search
    \/ get_font_fallback
    \/ get_font_store

FontSpec == FontInit /\ [][FontNext]_vars

(* ------------------ the main window and its thread -------------------- *)
\* the longest list of current_images, and the most ProcessingThreads started
MaxListed == 2
MaxRuns == 2

\* the files the dialogs offer
GuiFiles == { <<"a", ".", "j", "p", "g">>, <<"n", ".", "t", "x", "t">> }

\* add_folder: the extensions globbed for, in lower and in upper case
FolderExtensions ==
    { <<".", "j", "p", "g">>, <<".", "j", "p", "e", "g">>, <<".", "p", "n", "g">>,
      <<".", "b", "m", "p">>, <<".", "g", "i", "f">>, <<".", "t", "i", "f", "f">>,
      <<".", "t", "i", "f">>, <<".", "w", "e", "b", "p">> }

\* add_folder: the file of a folder is found by one of the globs (a name whose
\* suffix is all in one case)
IsFolderImage(name) == Lower(PathSuffix(name)) \in FolderExtensions

\* what QFileDialog.getOpenFileNames hands back: distinct files, or nothing
DialogFiles == ListsUpTo(GuiFiles, 2)

\* list(set(paths)) of add_folder: the images of the folder in any order
FolderListings == ListsUpTo({f \in GuiFiles : IsFolderImage(f)}, 2)

\* the settings of the watermark panel: no watermark, or one text watermark
GuiSettings == { BaseConfig, [BaseConfig EXCEPT !.text_watermarks = <<TextA>>] }

\* ImageListPanel.add_images: append the paths the panel does not show yet
PanelAddImages(shown, paths) ==
    shown \o SelectSeq(paths, LAMBDA q : \A k \in DOMAIN shown : shown[k] # q)

\* ImageListPanel.remove_selected: drop the selected paths
PanelRemoveSelected(shown, selected) == SelectSeq(shown, LAMBDA q : q \notin selected)

\* MainWindow.on_progress
OnProgress(w, call) ==
    [w EXCEPT !.progress_bar.value = (call.completed * 100) \div call.total,
              !.statusbar = Message("Processing")]

\* MainWindow.on_processing_finished
OnProcessingFinished(w, result) ==
    [w EXCEPT !.process_btn = TRUE, !.cancel_btn = FALSE, !.progress_bar.visible = FALSE,
              !.statusbar = Message("Completed")]

\* mutant: the error handler leaves the buttons as they are
OnProcessingError_stuck(w, error) ==
    [w EXCEPT !.progress_bar.visible = FALSE, !.statusbar = Message("Processing failed")]

\* MainWindow.on_processing_error
OnProcessingError(w, error) ==
    [w EXCEPT !.process_btn = TRUE, !.cancel_btn = FALSE, !.progress_bar.visible = FALSE,
              !.statusbar = Message("Processing failed")]

\* the list object the threads were given is self.current_images itself: once
\* a thread exists, what happens to the list happens to the thread's paths
ThreadPaths(list) == IF processing_threads # <<>> THEN list ELSE input_paths

\* the state of the shared BatchProcessor and of its process_batch call, but
\* for the path list
processorVars == << max_workers, progress_callback, cancel_flag, pc, valid_paths, total, futures,
                    yielded, cur, i, ci, broke, results, successful, failed, progress, ret >>

\* a main window after construction, on a machine of MaxWorkers processors
\* (max_workers = os.cpu_count())
GuiInit ==
    /\ input_paths = <<>>
    /\ max_workers = MaxWorkers
    /\ progress_callback = FALSE
    /\ cancel_flag = FALSE
    /\ pc = "nocall"
    /\ valid_paths = <<>>
    /\ total = 0
    /\ futures = <<>>
    /\ yielded = {}
    /\ cur = 0
    /\ i = 0
    /\ ci = 0
    /\ broke = FALSE
    /\ results = <<>>
    /\ successful = 0
    /\ failed = 0
    /\ progress = <<>>
    /\ ret = None
    /\ config = BaseConfig
    /\ task_path = <<>>
    /\ task = None
    /\ engine_call = NoCall
    /\ pool = <<>>
    /\ output_dir = <<>>
    /\ FontIdle
    /\ current_images = <<>>
    /\ image_paths = <<>>
    /\ watermark_settings \in GuiSettings
    /\ window = NewWindow
    /\ processing_threads = <<>>
    /\ progress_handled = 0

\* MainWindow.add_images: the files picked in the dialog
add_images ==
    /\ \E files \in DialogFiles :
          /\ Len(current_images) + Len(files) <= MaxListed
          /\ IF files # <<>>
             THEN /\ image_paths' = PanelAddImages(image_paths, files)
                  /\ current_images' = current_images \o files
                  /\ input_paths' = ThreadPaths(current_images')
                  /\ window' = [window EXCEPT !.statusbar = Message("Added")]
             ELSE UNCHANGED << image_paths, current_images, input_paths, window >>
    /\ UNCHANGED << processorVars, config, watermark_settings, processing_threads,
                    progress_handled >>
    /\ UNCHANGED notGui

\* MainWindow.add_folder: the images of the folder picked in the dialog
add_folder ==
    /\ \E paths \in FolderListings :
          /\ Len(current_images) + Len(paths) <= MaxListed
          /\ IF paths # <<>>
             THEN /\ image_paths' = PanelAddImages(image_paths, paths)
                  /\ current_images' = current_images \o paths
                  /\ input_paths' = ThreadPaths(current_images')
                  /\ window' = [window EXCEPT !.statusbar = Message("Added from folder")]
             ELSE /\ window' = [window EXCEPT !.statusbar = Message("No images found in folder")]
                  /\ UNCHANGED << image_paths, current_images, input_paths >>
    /\ UNCHANGED << processorVars, config, watermark_settings, processing_threads,
                    progress_handled >>
    /\ UNCHANGED notGui

\* ImageListPanel.remove_selected: the Remove button of the list panel
remove_selected ==
    /\ \E selected \in SUBSET {image_paths[k] : k \in DOMAIN image_paths} :
          /\ selected # {}
          /\ image_paths' = PanelRemoveSelected(image_paths, selected)
    /\ UNCHANGED << input_paths, processorVars, config, current_images, watermark_settings,
                    window, processing_threads, progress_handled >>
    /\ UNCHANGED notGui

\* ImageListPanel.clear: the Clear All button of the list panel
panel_clear ==
    /\ image_paths # <<>>
    /\ image_paths' = <<>>
    /\ UNCHANGED << input_paths, processorVars, config, current_images, watermark_settings,
                    window, processing_threads, progress_handled >>
    /\ UNCHANGED notGui

\* MainWindow.clear_images
clear_images ==
    /\ current_images # <<>>
    /\ image_paths' = <<>>
    /\ current_images' = <<>>
    /\ input_paths' = ThreadPaths(<<>>)
    /\ window' = [window EXCEPT !.statusbar = Message("Cleared all images")]
    /\ UNCHANGED << processorVars, config, watermark_settings, processing_threads,
                    progress_handled >>
    /\ UNCHANGED notGui

\* MainWindow.start_processing: the Process All button, which can be
\* triggered while it is enabled
start_processing ==
    /\ window.process_btn
    /\ Len(processing_threads) < MaxRuns
    /\ IF \/ current_images = <<>>
          \/ (watermark_settings.text_watermarks = <<>>
                 /\ watermark_settings.image_watermarks = <<>>)
       THEN UNCHANGED << window, processing_threads, input_paths >>
       ELSE /\ window' = [window EXCEPT !.process_btn = FALSE, !.cancel_btn = TRUE,
                                        !.progress_bar = [visible |-> TRUE, value |-> 0]]
            /\ processing_threads' = Append(processing_threads,
                                            [phase |-> "started", config |-> watermark_settings])
            /\ input_paths' = current_images
    /\ UNCHANGED << processorVars, config, current_images, image_paths, watermark_settings,
                    progress_handled >>
    /\ UNCHANGED notGui

\* MainWindow.cancel_processing: the Cancel button, which can be triggered
\* while it is enabled
cancel_processing ==
    /\ window.cancel_btn
    /\ IF processing_threads # <<>>
       THEN /\ cancel_flag' = TRUE
            /\ window' = [window EXCEPT !.statusbar = Message("Cancelling...")]
       ELSE UNCHANGED << cancel_flag, window >>
    /\ UNCHANGED << input_paths, max_workers, progress_callback, pc, valid_paths, total, futures,
                    yielded, cur, i, ci, broke, results, successful, failed, progress, ret >>
    /\ UNCHANGED << config, current_images, image_paths, watermark_settings, processing_threads,
                    progress_handled >>
    /\ UNCHANGED notGui

\* ProcessingThread.run up to the call of process_batch: the thread has been
\* scheduled, sets the progress callback and calls process_batch (the model
\* keeps the locals of one process_batch call)
thread_run ==
    /\ pc = "nocall"
    /\ \E t \in DOMAIN processing_threads :
          /\ processing_threads[t].phase = "started"
          /\ processing_threads' = [processing_threads EXCEPT ![t].phase = "running"]
          /\ config' = processing_threads[t].config
    /\ progress_callback' = TRUE
    /\ pc' = "idle"
    /\ valid_paths' = <<>>
    /\ total' = 0
    /\ futures' = <<>>
    /\ yielded' = {}
    /\ cur' = 0
    /\ i' = 0
    /\ ci' = 0
    /\ broke' = FALSE
    /\ results' = <<>>
    /\ successful' = 0
    /\ failed' = 0
    /\ progress' = <<>>
    /\ ret' = None
    /\ progress_handled' = 0
    /\ UNCHANGED << input_paths, max_workers, cancel_flag, current_images, image_paths,
                    watermark_settings, window >>
    /\ UNCHANGED notGui

\* ProcessingThread.run after process_batch: finished.emit(result), or
\* error.emit(str(e)) when process_batch raised
thread_emit ==
    /\ pc = "done"
    /\ \E t \in DOMAIN processing_threads :
          /\ processing_threads[t].phase = "running"
          /\ processing_threads' = [processing_threads EXCEPT ![t] =
                [phase |-> "emitted", config |-> @.config,
                 signal |-> IF ret.val.kind = "value"
                            THEN [name |-> "finished", result |-> ret.val.value]
                            ELSE [name |-> "error", error |-> ret.val.error]]]
    /\ pc' = "nocall"
    /\ UNCHANGED << input_paths, max_workers, progress_callback, cancel_flag, valid_paths, total,
                    futures, yielded, cur, i, ci, broke, results, successful, failed, progress,
                    ret >>
    /\ UNCHANGED << config, current_images, image_paths, watermark_settings, window,
                    progress_handled >>
    /\ UNCHANGED notGui

\* the GUI thread handles the next progress signal of the queue
on_progress ==
    /\ progress_handled < Len(progress)
    /\ window' = OnProgress(window, progress[progress_handled + 1])
    /\ progress_handled' = progress_handled + 1
    /\ UNCHANGED << input_paths, processorVars, config, current_images, image_paths,
                    watermark_settings, processing_threads >>
    /\ UNCHANGED notGui

\* the GUI thread handles the finished or the error signal, which was queued
\* behind the progress signals of the run
on_processing_over ==
    /\ progress_handled = Len(progress)
    /\ \E t \in DOMAIN processing_threads :
          /\ processing_threads[t].phase = "emitted"
          /\ window' = IF processing_threads[t].signal.name = "finished"
                       THEN OnProcessingFinished(window, processing_threads[t].signal.result)
                       ELSE OnProcessingError(window, processing_threads[t].signal.error)
          /\ processing_threads' = [processing_threads EXCEPT ![t] =
                                        [phase |-> "over", config |-> @.config]]
    /\ UNCHANGED << input_paths, processorVars, config, current_images, image_paths,
                    watermark_settings, progress_handled >>
    /\ UNCHANGED notGui

\* the file lists of the main window: the operations on the lists, and the
\* hand-over of the list to a processing thread
PanelNext ==
    \/ add_images
    \/ add_folder
    \/ panel_clear
    \/ remove_selected
    \/ clear_images
    \/ start_processing

PanelSpec == GuiInit /\ [][PanelNext]_vars

\* the runs of the main window: files are added, a run is started and
\* cancelled, the thread runs process_batch and reports back
GuiNext ==
    \/ add_images
    \/ add_folder
    \/ start_processing
    \/ cancel_processing
    \/ thread_run
    \/ process_batch_enter
    \/ worker_start
    \/ worker_finish
    \/ as_completed
    \/ check_cancel_flag
    \/ cancel_futures
    \/ record_result
    \/ report_progress
    \/ executor_shutdown
    \/ process_batch_return
    \/ thread_emit
    \/ on_progress
    \/ on_processing_over

GuiSpec == GuiInit /\ [][GuiNext]_vars

(* ------------------------------ claims -------------------------------- *)
\* the run was not cancelled: the completion loop was neither left by break
\* nor is it about to be
NotCancelled == ~broke /\ pc # "cancel"

\* number of finished tasks whose result has the given success flag
CountTasks(flag) ==
    Cardinality({f \in DOMAIN futures :
                   futures[f].state = "done" /\ futures[f].result.val.success = flag})

\* C1: every run of process_batch that is not cancelled returns an aggregate
\* result to its caller with total = number of dispatched files, successful
\* and failed = the numbers of succeeded and failed tasks, and
\* successful + failed = total = number of per-file results.
C1_AggregateResultReturned ==
    (pc = "done" /\ NotCancelled) =>
        /\ ret.some
        /\ ret.val.kind = "value"
        /\ ret.val.value.total_images = Len(valid_paths)
        /\ ret.val.value.successful = CountTasks(TRUE)
        /\ ret.val.value.failed = CountTasks(FALSE)
        /\ ret.val.value.successful + ret.val.value.failed = ret.val.value.total_images
        /\ Len(ret.val.value.results) = ret.val.value.total_images

\* C2: a failing task never aborts the batch: with k failing files among n
\* dispatched ones the run completes, no exception reaches the caller, the
\* counts are successful = n - k and failed = k, and every failed result
\* carries a non-empty error message.
C2_FailingTaskDoesNotAbort ==
    (pc = "done" /\ NotCancelled /\ CountTasks(FALSE) >= 1) =>
        /\ ret.val.kind # "exception"
        /\ successful = total - CountTasks(FALSE)
        /\ failed = CountTasks(FALSE)
        /\ \A k \in 1..Len(results) :
             ~results[k].success => (results[k].error.some /\ results[k].error.val # "")

\* C3: process_single_image never raises: a failure in any step is caught and
\* becomes a result with success = false, the error message and no output
\* filename; a task that completes every step gives success = true with the
\* output filename, both sizes and no error.
C3_TaskNeverRaises ==
    /\ task.pc # "raised"
    /\ task.pc = "done" =>
         /\ task.result.some
         /\ task.exc.some # task.saved.some
         /\ task.exc.some =>
              /\ ~task.result.val.success
              /\ task.result.val.error = task.exc
              /\ ~task.result.val.output_file.some
         /\ task.saved.some =>
              /\ task.result.val.success
              /\ task.result.val.output_file = task.output_filename
              /\ task.result.val.original_size.some
              /\ task.result.val.output_size = Some(task.saved.val.image.size)
              /\ ~task.result.val.error.some

\* C3 witness: a failure in the image watermark step ended as a failed result
C3_Witness ==
    /\ task.pc = "done"
    /\ task.result.some
    /\ ~task.result.val.success
    /\ task.result.val.error = Some(ErrLogo)

\* C4: in a run that is not cancelled and has a progress callback, the
\* callback is called once per completed task in completion order: the k-th
\* call carries completed = k, the constant total and the file name of the
\* k-th result, and the last call has completed = total.
C4_ProgressPerCompletion ==
    (progress_callback /\ pc # "idle" /\ NotCancelled) =>
        /\ Len(progress) = (IF pc = "callback" THEN Len(results) - 1 ELSE Len(results))
        /\ \A k \in 1..Len(progress) :
             /\ progress[k].completed = k
             /\ progress[k].total = Len(valid_paths)
             /\ progress[k].filename = results[k].input_file
        /\ pc \in {"shutdown", "return", "done"} =>
             /\ Len(progress) = total
             /\ total > 0 => progress[Len(progress)].completed = total

\* C4 witness: two files completed in the reverse of their submission order
C4_Witness ==
    /\ pc = "done"
    /\ NotCancelled
    /\ progress_callback
    /\ Len(progress) = 2
    /\ progress[1].filename = valid_paths[2]
    /\ progress[2].filename = valid_paths[1]

\* C5 as stated: from the moment cancel() sets the flag during a run, no
\* further result is recorded and no further progress call is made.
C5_NothingAfterCancel ==
    [][ (cancel_flag /\ pc \notin {"idle", "done"}) =>
            (results' = results /\ progress' = progress) ]_vars

\* C5 amended: once the check at the top of a loop iteration has found the
\* flag set, no further result is recorded and no further progress call is
\* made and the loop is left by break; while the flag is set a result is only
\* recorded, and a progress call only made, by the iteration whose check had
\* already passed.
C5_NothingAfterObservedCancel ==
    [][ /\ (pc = "check" /\ cancel_flag) => pc' \in {"check", "cancel"}
        /\ (pc = "cancel" \/ broke) =>
              /\ results' = results
              /\ progress' = progress
              /\ successful' = successful
              /\ failed' = failed
              /\ pc' \in {"cancel", "shutdown", "return", "done"}
              /\ pc' # "cancel" => broke'
        /\ (cancel_flag /\ pc # "idle" /\ results' # results) => pc = "result"
        /\ (cancel_flag /\ pc # "idle" /\ progress' # progress) => pc = "callback" ]_vars

\* C5 witness: a cancelled run ended with a finished task left unrecorded
C5_Witness ==
    /\ pc = "done"
    /\ broke
    /\ Len(results) >= 1
    /\ \E f \in DOMAIN futures : futures[f].state = "done" /\ f \in yielded
    /\ Cardinality({f \in DOMAIN futures : futures[f].state = "done"}) > Len(results)

\* C6 as stated: once the flag has been observed, a task that has not yet
\* started never starts.
C6_UnstartedNeverExecute ==
    [][ (pc = "cancel" \/ broke) =>
            \A f \in DOMAIN futures :
                futures[f].state = "pending" => futures'[f].state # "running" ]_vars

\* C6 amended: no task is interrupted: a running task stays running until it
\* is done, also during and after the cancel loop, and process_batch does not
\* return while a task is running; a task still pending when the cancel loop
\* reaches its future is cancelled and never executes (one that a free worker
\* starts before the loop reaches it runs to completion).
C6_InFlightTasksComplete ==
    /\ [][ \A f \in DOMAIN futures :
             /\ futures[f].state = "running" => futures'[f].state \in {"running", "done"}
             /\ futures[f].state = "cancelled" => futures'[f] = futures[f]
             /\ futures[f].state = "done" => futures'[f] = futures[f] ]_vars
    /\ [] /\ pc \in {"return", "done"} =>
               \A f \in DOMAIN futures :
                   /\ futures[f].state \in {"done", "cancelled"}
                   /\ futures[f].state = "done" <=> futures[f].result.some
          /\ pc = "cancel" =>
               \A f \in DOMAIN futures : f < ci => futures[f].state # "pending"
          /\ broke => \A f \in DOMAIN futures : futures[f].state # "pending"

\* C6 witness: the cancel loop is over, a task it could not cancel is still
\* running and process_batch waits for it
C6_Witness ==
    /\ pc = "shutdown"
    /\ broke
    /\ \E f \in DOMAIN futures : futures[f].state = "running"

\* the filter the claim describes: the eight image extensions
IsImagePath(name) == Lower(PathSuffix(name)) \in SUPPORTED_IMAGE_FORMATS

\* C7: process_batch dispatches a task for a path iff its lower-cased
\* extension is one of the eight image extensions; every other path gets no
\* task, no result, no progress call and is not counted in total.
C7_OnlyImageExtensionsDispatched ==
    pc # "idle" =>
        /\ valid_paths = SelectSeq(input_paths, IsImagePath)
        /\ total = Len(SelectSeq(input_paths, IsImagePath))
        /\ \A k \in 1..Len(results) : IsImagePath(results[k].input_file)
        /\ \A k \in 1..Len(progress) : IsImagePath(progress[k].filename)

\* the watermark layers of the first n text and the first m image
\* configurations, in list order, texts below images
LayersOf(cfg, n, m) ==
    [k \in 1..n |-> [kind |-> "text", cfg |-> cfg.text_watermarks[k]]]
    \o [k \in 1..m |-> [kind |-> "image", cfg |-> cfg.image_watermarks[k]]]

\* C8: within a task the steps run in the order load, EXIF, text watermarks,
\* image watermarks, optional resize, file name, save: every text watermark
\* is applied before any image watermark, each list in its order, and the
\* file written holds all watermarks and the resize.
C8_StepOrder ==
    LET nt == Len(config.text_watermarks)
        ni == Len(config.image_watermarks)
    IN /\ task.exif_data.some => task.image.some
       /\ task.exif_bytes.some => task.exif_data.some
       /\ task.image.some =>
            /\ task.image.val.layers = LayersOf(config, task.ti - 1, task.ii - 1)
            /\ task.ii > 1 => task.ti = nt + 1
            /\ task.image.val.layers # <<>> => task.exif_data.some
            /\ task.image.val.size # task.original_size.val =>
                 (task.ti = nt + 1 /\ task.ii = ni + 1)
       /\ task.output_filename.some =>
            /\ task.image.val.layers = LayersOf(config, nt, ni)
            /\ config.resize_output =>
                 task.image.val.size =
                     ResizedSize(task.original_size.val, config.resize_width,
                                 config.resize_height, config.maintain_aspect_ratio)
       /\ task.saved.some =>
            /\ task.output_filename.some
            /\ task.saved.val.name = task.output_filename.val
            /\ task.saved.val.image = task.image.val
            /\ task.saved.val.image.layers = LayersOf(config, nt, ni)

\* C8 witness: a file was written with two text layers under two image
\* layers, resized
C8_Witness ==
    /\ task.pc = "done"
    /\ task.saved.some
    /\ Len(task.saved.val.image.layers) = 4
    /\ task.saved.val.image.layers[2].kind = "text"
    /\ task.saved.val.image.layers[3].kind = "image"
    /\ task.saved.val.image.size # task.original_size.val

\* C9: a failure of EXIF extraction is absorbed: it never turns the task into
\* a failed result.
C9_ExifFailureAbsorbed ==
    (task.pc = "done" /\ task.exc = Some(ErrExif)) => task.result.val.success

\* the configuration has an image watermark with no logo source
HasNoLogoSource(cfg) ==
    \E k \in 1..Len(cfg.image_watermarks) :
        cfg.image_watermarks[k].logo_path = "" /\ cfg.image_watermarks[k].logo_base64 = ""

\* C10 as stated: with such a configuration every dispatched file ends as a
\* failed result that carries the load_logo error.
C10_EveryFileCarriesLogoError ==
    HasNoLogoSource(config) =>
        \A f \in DOMAIN futures :
            futures[f].state = "done" =>
                /\ ~futures[f].result.val.success
                /\ futures[f].result.val.error = Some(ErrNoLogo)

\* C10 amended: load_logo raises for a configuration without a source, and in
\* a batch using it every dispatched file ends as a failed result, none is
\* counted successful and, unless the run is cancelled, every file gets its
\* result; the result carries the load_logo error unless an earlier step of
\* that file (load, EXIF, an earlier watermark) failed, then that error.
C10_NoLogoSourceFailsEveryFile ==
    HasNoLogoSource(config) =>
        /\ \A env \in Env : LoadLogo(LogoNone, env) = [some |-> FALSE, error |-> ErrNoLogo]
        /\ \A f \in DOMAIN futures :
             futures[f].state = "done" =>
                /\ ~futures[f].result.val.success
                /\ futures[f].result.val.error.some
                /\ futures[f].result.val.error.val \in
                     {ErrNoLogo, ErrNotFound, ErrUnsupported, ErrDecode, ErrExif, ErrText, ErrLogo}
        /\ successful = 0
        /\ (pc \in {"shutdown", "return", "done"} /\ NotCancelled) =>
             (Len(results) = total /\ failed = total)

\* C10 witness: a completed batch of two files, one failed by load_logo and
\* one by a missing input file
C10_Witness ==
    /\ HasNoLogoSource(config)
    /\ pc = "done"
    /\ NotCancelled
    /\ failed = 2
    /\ \E k \in 1..2 : results[k].error = Some(ErrNoLogo)
    /\ \E k \in 1..2 : results[k].error = Some(ErrNotFound)

\* C11: a TextWatermarkConfig constructed with an opacity outside [0, 1], a
\* font_size below 8 or a rotation outside [-360, 360], and an
\* ImageWatermarkConfig constructed with an opacity outside [0, 1], fails at
\* construction: no configuration object carrying such a value exists for a
\* batch task to run with.
C11_MalformedConfigRejectedAtConstruction ==
    /\ engine_call.op = "TextWatermarkConfig" =>
          LET k == engine_call.kwargs
              malformed == \/ k.opacity < 0 \/ k.opacity > 100
                           \/ k.font_size < 8
                           \/ k.rotation < -360 \/ k.rotation > 360
          IN /\ malformed => engine_call.res.raised
             /\ ~engine_call.res.raised =>
                   /\ engine_call.res.value.opacity \in 0..100
                   /\ engine_call.res.value.font_size >= 8
                   /\ engine_call.res.value.rotation \in -360..360
    /\ engine_call.op = "ImageWatermarkConfig" =>
          LET k == engine_call.kwargs
          IN /\ (k.opacity < 0 \/ k.opacity > 100) => engine_call.res.raised
             /\ ~engine_call.res.raised => engine_call.res.value.opacity \in 0..100

\* a negative opacity was refused at construction
C11_Witness ==
    /\ engine_call.op = "TextWatermarkConfig"
    /\ engine_call.kwargs.opacity < 0
    /\ engine_call.kwargs.font_size = 36
    /\ engine_call.kwargs.rotation = 0
    /\ engine_call.res.raised

\* C12: two inputs of one batch that share a stem map to the same output
\* filename and the collision simply overwrites: the two tasks' writes to that
\* path never overlap in time, both tasks are reported successful with the
\* same output filename, and one complete output file remains.
C12_SameStemWritesNeverOverlap ==
    \A a, b \in DOMAIN pool :
       (a # b /\ PathStem(pool[a].name) = PathStem(pool[b].name)) =>
          /\ ~(pool[a].state = "saving" /\ pool[b].state = "saving")
          /\ (/\ pool[a].state = "done" /\ pool[b].state = "done"
              /\ pool[a].task.result.val.success /\ pool[b].task.result.val.success) =>
                /\ pool[a].task.result.val.output_file = pool[b].task.result.val.output_file
                /\ DOMAIN output_dir = {pool[a].task.result.val.output_file.val}
                /\ \A q \in DOMAIN output_dir : output_dir[q].data = "complete"

\* the extension the output format stands for
C13_Extension ==
    CASE config.output_format = "JPEG" -> <<".", "j", "p", "g">>
      [] config.output_format = "PNG" -> <<".", "p", "n", "g">>
      [] config.output_format = "WEBP" -> <<".", "w", "e", "b", "p">>

C14_IsFloorOfHalf(v, n) == 2 * v <= n /\ n < 2 * (v + 1)

\* C14: for the nine anchors calculate_position computes each axis on its
\* own: at the near edge (left, top) the offset is the margin, in the middle
\* it is floor((target - overlay) / 2), at the far edge (right, bottom) it is
\* target - overlay - margin; for a target of (800, 600), an overlay of
\* (100, 50) and margin 20: bottom-right (680, 530), center (350, 275),
\* top-left (20, 20).
C14_AnchorPosition ==
    (engine_call.op = "calculate_position" /\ engine_call.position \in DOMAIN POSITION_MAP) =>
       LET c == engine_call
           p == c.position
           free == [k \in 1..2 |-> c.image_size[k] - c.watermark_size[k]]
       IN /\ p \in {"top-left", "middle-left", "bottom-left"} => c.res[1] = c.margin
          /\ p \in {"top-center", "center", "bottom-center"} =>
                C14_IsFloorOfHalf(c.res[1], free[1])
          /\ p \in {"top-right", "middle-right", "bottom-right"} =>
                c.res[1] = free[1] - c.margin
          /\ p \in {"top-left", "top-center", "top-right"} => c.res[2] = c.margin
          /\ p \in {"middle-left", "center", "middle-right"} =>
                C14_IsFloorOfHalf(c.res[2], free[2])
          /\ p \in {"bottom-left", "bottom-center", "bottom-right"} =>
                c.res[2] = free[2] - c.margin
          /\ (c.image_size = <<800, 600>> /\ c.watermark_size = <<100, 50>> /\ c.margin = 20) =>
                /\ p = "bottom-right" => c.res = <<680, 530>>
                /\ p = "center" => c.res = <<350, 275>>
                /\ p = "top-left" => c.res = <<20, 20>>

\* the centre of an overlay wider than its target: floor of a negative half
C14_Witness ==
    /\ engine_call.op = "calculate_position"
    /\ engine_call.position = "center"
    /\ engine_call.image_size = <<8, 6>>
    /\ engine_call.watermark_size = <<11, 9>>
    /\ engine_call.res = <<-2, -2>>

\* the call is one of the three compositing operations
C15_IsCompositing ==
    engine_call.op \in {"composite_watermark", "apply_text_watermark", "apply_image_watermark"}

\* C15: composite_watermark, apply_text_watermark and apply_image_watermark
\* (anchored, custom or tiled) return a new buffer of exactly the base's
\* dimensions and leave the base as it was; the parts of an overlay that fall
\* outside the canvas are cut off silently - the placement never makes the
\* call fail, and what is painted is the overlay's rectangle cut to the canvas.
C15_FrameKept ==
    C15_IsCompositing =>
       LET c == engine_call
           W == c.base.size[1]
           H == c.base.size[2]
       IN /\ c.out.exc.some => (c.op = "apply_image_watermark" /\ c.out.exc.val = ErrResize)
          /\ ~c.out.exc.some =>
                /\ c.out.ret # c.image
                /\ c.out.heap[c.out.ret].size = c.base.size
                /\ c.out.heap[c.image] = c.base
                /\ \A k \in DOMAIN c.out.heap[c.out.ret].paint :
                      LET p == c.out.heap[c.out.ret].paint[k]
                      IN /\ 0 <= p.box[1] /\ p.box[1] < p.box[3] /\ p.box[3] <= W
                         /\ 0 <= p.box[2] /\ p.box[2] < p.box[4] /\ p.box[4] <= H
                         /\ p.box[1] \in {0, p.at[1]} /\ p.box[1] >= p.at[1]
                         /\ p.box[2] \in {0, p.at[2]} /\ p.box[2] >= p.at[2]
                         /\ p.box[3] \in {W, p.at[1] + p.size[1]}
                         /\ p.box[3] <= p.at[1] + p.size[1]
                         /\ p.box[4] \in {H, p.at[2] + p.size[2]}
                         /\ p.box[4] <= p.at[2] + p.size[2]

\* an overlay wider than the base, placed at negative custom coordinates, was
\* cut on both sides
C15_Witness ==
    /\ engine_call.op = "apply_text_watermark"
    /\ engine_call.position = "custom"
    /\ ~engine_call.out.exc.some
    /\ engine_call.base.size = <<800, 600>>
    /\ \E k \in DOMAIN engine_call.out.heap[engine_call.out.ret].paint :
          engine_call.out.heap[engine_call.out.ret].paint[k].box = <<0, 0, 800, 20>>

\* the call tiles a 50x50 overlay onto a 300x300 canvas with spacing 100
C16_IsTheExample ==
    /\ engine_call.op = "create_tile_pattern"
    /\ engine_call.overlay = <<50, 50>>
    /\ engine_call.image_size = <<300, 300>>
    /\ engine_call.spacing = 100

\* the copies of a tile layer do not overlap
C16_NonOverlapping ==
    LET c == engine_call
    IN \A j, k \in DOMAIN c.positions :
          j # k =>
             \/ c.positions[j].x + c.overlay[1] <= c.positions[k].x
             \/ c.positions[k].x + c.overlay[1] <= c.positions[j].x
             \/ c.positions[j].y + c.overlay[2] <= c.positions[k].y
             \/ c.positions[k].y + c.overlay[2] <= c.positions[j].y

\* every other row is shifted by half the horizontal step: the copies of
\* row r lie at spacing + (r odd: half a step) + a whole number of steps
C16_AlternatingRows ==
    LET c == engine_call
        step_x == c.overlay[1] + c.spacing
    IN \A k \in DOMAIN c.positions :
          LET shift == IF c.positions[k].row % 2 = 1 THEN step_x \div 2 ELSE 0
          IN /\ c.positions[k].x >= c.spacing + shift
             /\ (c.positions[k].x - c.spacing - shift) % step_x = 0

\* C16 as stated: tiling a 50x50 overlay onto a 300x300 canvas with spacing
\* 100 places at least 4 non-overlapping copies, alternating rows being offset
\* by half the horizontal step.
C16_AtLeastFourCopies ==
    engine_call.op = "create_tile_pattern" =>
       /\ C16_NonOverlapping
       /\ C16_AlternatingRows
       /\ C16_IsTheExample => Len(engine_call.positions) >= 4

\* C16 amended: tiling a 50x50 overlay onto a 300x300 canvas with spacing 100
\* places 3 non-overlapping copies - at (100, 100), (250, 100) and
\* (175, 250) - alternating rows being offset by half the horizontal step.
C16_ThreeCopies ==
    engine_call.op = "create_tile_pattern" =>
       /\ C16_NonOverlapping
       /\ C16_AlternatingRows
       /\ C16_IsTheExample =>
             /\ Len(engine_call.positions) = 3
             /\ { <<engine_call.positions[k].x, engine_call.positions[k].y>> :
                     k \in DOMAIN engine_call.positions }
                   = { <<100, 100>>, <<250, 100>>, <<175, 250>> }
             /\ Len(engine_call.out.heap[engine_call.out.ret].paint) = 3

\* the example has been tiled, its second row shifted by 75
C16_Witness ==
    /\ C16_IsTheExample
    /\ \E k \in DOMAIN engine_call.positions :
          engine_call.positions[k].row = 1 /\ engine_call.positions[k].x = 175

\* C17: apply_opacity maps every alpha a to floor(a * opacity) and leaves the
\* colour channels and the dimensions as they are; opacity 1.0 is the
\* identity and opacity 0.0 makes every alpha 0.
C17_OpacityScalesAlpha ==
    engine_call.op = "apply_opacity" =>
       LET c == engine_call
       IN /\ c.res.size = c.image.size
          /\ DOMAIN c.res.px = DOMAIN c.image.px
          /\ \A k \in DOMAIN c.image.px :
                /\ \A ch \in 1..3 : c.res.px[k][ch] = c.image.px[k][ch]
                /\ 100 * c.res.px[k][4] <= c.image.px[k][4] * c.opacity
                /\ c.image.px[k][4] * c.opacity < 100 * (c.res.px[k][4] + 1)
                /\ c.opacity = 100 => c.res.px[k] = c.image.px[k]
                /\ c.opacity = 0 => c.res.px[k][4] = 0

\* alpha 127 at opacity 0.5 became 63, alpha 1 became 0
C17_Witness ==
    /\ engine_call.op = "apply_opacity"
    /\ engine_call.opacity = 50
    /\ engine_call.image.px[1][4] = 127
    /\ engine_call.res.px[1][4] = 63
    /\ engine_call.image.px[2][4] = 1
    /\ engine_call.res.px[2][4] = 0

\* v is n * num / den rounded down (den > 0), said without division
C18_IsFloorOfScaled(v, n, num, den) == den * v <= n * num /\ n * num < den * (v + 1)

\* C18: resize_image returns the image unchanged when neither width nor
\* height is given; with the aspect ratio maintained and one dimension given
\* the other one is derived from the ratio (800x600 with width 400 gives
\* (400, 300)); with both given the image fits inside the box, scaled by
\* min(width / origW, height / origH); without aspect maintenance a missing
\* dimension keeps its original value.
C18_ResizedSize ==
    (engine_call.op = "resize_image" /\ ~engine_call.res.exc.some) =>
       LET c == engine_call
           ow == c.size[1]
           oh == c.size[2]
           nw == c.res.size[1]
           nh == c.res.size[2]
       IN /\ (~c.width.some /\ ~c.height.some) => (c.res.same /\ c.res.size = c.size)
          /\ (c.maintain_aspect /\ c.width.some /\ ~c.height.some) =>
                (nw = c.width.val /\ C18_IsFloorOfScaled(nh, oh, c.width.val, ow))
          /\ (c.maintain_aspect /\ ~c.width.some /\ c.height.some) =>
                (nh = c.height.val /\ C18_IsFloorOfScaled(nw, ow, c.height.val, oh))
          /\ (c.maintain_aspect /\ c.width.some /\ c.height.some) =>
                /\ nw <= c.width.val /\ nh <= c.height.val
                /\ IF c.width.val * oh <= c.height.val * ow
                   THEN /\ C18_IsFloorOfScaled(nw, ow, c.width.val, ow)
                        /\ C18_IsFloorOfScaled(nh, oh, c.width.val, ow)
                   ELSE /\ C18_IsFloorOfScaled(nw, ow, c.height.val, oh)
                        /\ C18_IsFloorOfScaled(nh, oh, c.height.val, oh)
          /\ ~c.maintain_aspect =>
                /\ nw = (IF c.width.some THEN c.width.val ELSE ow)
                /\ nh = (IF c.height.some THEN c.height.val ELSE oh)
          /\ (c.size = <<800, 600>> /\ c.maintain_aspect /\ c.width = Some(400)
                /\ ~c.height.some) => c.res.size = <<400, 300>>

\* 800x600 fitted into a box of 400 x 100 became 133 x 100
C18_Witness ==
    /\ engine_call.op = "resize_image"
    /\ engine_call.size = <<800, 600>>
    /\ engine_call.maintain_aspect
    /\ engine_call.width = Some(400)
    /\ engine_call.height = Some(100)
    /\ engine_call.res.size = <<133, 100>>
    /\ ~engine_call.res.exc.some

\* the piece is the placeholder of entry k of the dictionary
C19_IsPlaceholder(piece, k) == ExifPlaceholders[k].token = piece

\* what the claim expects in place of a piece: the field of the map for a
\* recognised placeholder, nothing when the field is absent, the piece itself
\* otherwise
C19_Expected(piece, exif_data) ==
    IF \E k \in DOMAIN ExifPlaceholders : C19_IsPlaceholder(piece, k)
    THEN LET k == CHOOSE j \in DOMAIN ExifPlaceholders : C19_IsPlaceholder(piece, j)
             key == ExifPlaceholders[k].key
         IN IF exif_data.some /\ key \in DOMAIN exif_data.val
            THEN PyStr(exif_data.val[key])
            ELSE <<>>
    ELSE piece

\* C19: with EXIF substitution enabled create_text_watermark replaces every
\* recognised placeholder of the text by the corresponding field of the EXIF
\* map of the call, and by the empty string when the field is absent - also
\* when the map is empty; it never raises over a placeholder.
C19_PlaceholdersSubstituted ==
    (engine_call.op = "create_text_watermark" /\ engine_call.cfg.use_exif
        /\ engine_call.exif_data.some) =>
       engine_call.res.text =
          Flatten([k \in DOMAIN engine_call.pieces |->
                      C19_Expected(engine_call.pieces[k], engine_call.exif_data)])

\* C20: the grayscale conversion changes colour only: for every pixel the
\* output alpha is the input alpha exactly and R = G = B, whatever the alpha
\* channel looks like, and the dimensions are unchanged.
C20_GrayscaleKeepsAlpha ==
    (engine_call.op = "convert_to_grayscale" /\ ~engine_call.res.exc.some) =>
       LET c == engine_call
       IN /\ c.res.image.size = c.image.size
          /\ DOMAIN c.res.image.px = DOMAIN c.image.px
          /\ \A k \in DOMAIN c.image.px :
                /\ c.res.image.px[k][4] = c.image.px[k][4]
                /\ c.res.image.px[k][1] = c.res.image.px[k][2]
                /\ c.res.image.px[k][2] = c.res.image.px[k][3]

\* a red pixel of alpha 127 next to a green one of alpha 1: both gray, both
\* alphas kept
C20_Witness ==
    /\ engine_call.op = "convert_to_grayscale"
    /\ ~engine_call.res.exc.some
    /\ engine_call.image.px = << <<255, 0, 0, 127>>, <<10, 200, 30, 1>> >>
    /\ engine_call.res.image.px = << <<76, 76, 76, 127>>, <<124, 124, 124, 1>> >>

\* C21 (part): a get_font call that has returned gave its caller a font and
\* raised nothing, and the cache holds exactly one item for the call's key.
C21_CallerHasFont ==
    \A t \in DOMAIN font_threads :
        font_threads[t].pc = "returned" =>
            /\ font_threads[t].exc = None
            /\ font_threads[t].ret.some
            /\ font_threads[t].ret.val.size \in {0, font_threads[t].key[2]}
            /\ Cardinality({e \in font_cache : e.key = font_threads[t].key}) = 1

\* C21 (part): a call for a key the cache holds returns the cached font and
\* creates no font object.
C21_CachedWithoutLookup ==
    \A t \in DOMAIN font_threads, k \in FontKeys :
        ( /\ DictHas(font_cache, k)
          /\ font_threads[t].pc \in {"idle", "returned"}
          /\ font_threads'[t].pc # "idle"
          /\ font_threads'[t] # font_threads[t]
          /\ font_threads'[t].key = k )
        => /\ font_threads'[t].pc = "returned"
           /\ font_threads'[t].ret = Some(DictGet(font_cache, k))
           /\ font_loads' = font_loads
           /\ font_cache' = font_cache

\* C21: get_font never fails: whatever the family and size, with or without a
\* matching font file, and however the calls of the worker threads for one
\* key interleave, every caller receives a font, the cache then holds exactly
\* one item for the key, and a later call for the key returns the cached font
\* without a new lookup.
C21_GetFontNeverFails ==
    /\ [](C21_CallerHasFont)
    /\ [][C21_CachedWithoutLookup]_vars

\* two threads missed the cache for one key and both loaded and stored a font,
\* no font file matched, and a third call was served from the cache
C21_Witness ==
    \E t \in DOMAIN font_threads, u \in DOMAIN font_threads :
        /\ t # u
        /\ font_threads[t].pc = "returned"
        /\ font_threads[u].pc = "returned"
        /\ font_threads[t].key = font_threads[u].key
        /\ font_threads[t].hit
        /\ ~font_threads[u].hit
        /\ font_threads[u].ret.val.source = DefaultFont
        /\ font_threads[t].ret.val.id # font_threads[u].ret.val.id
        /\ font_loads >= 2
        /\ Cardinality({e \in font_cache : e.key = font_threads[t].key}) = 1

\* the call has position "custom" and both custom coordinates
C22_IsCustom ==
    /\ engine_call.op = "calculate_position"
    /\ engine_call.position = "custom"
    /\ engine_call.custom_x.some
    /\ engine_call.custom_y.some

\* C22: calculate_position with position custom and both custom coordinates
\* returns exactly (custom_x, custom_y) whatever the sizes and the margin; a
\* position that is none of the nine anchors (custom with a coordinate missing
\* included) gives the bottom-right result; and nothing is clamped: negative
\* and out-of-canvas offsets are returned as computed.
C22_CustomAndFallback ==
    engine_call.op = "calculate_position" =>
       LET c == engine_call
           bottom_right == << c.image_size[1] - c.watermark_size[1] - c.margin,
                              c.image_size[2] - c.watermark_size[2] - c.margin >>
       IN /\ C22_IsCustom => c.res = <<c.custom_x.val, c.custom_y.val>>
          /\ (~C22_IsCustom /\ c.position \notin
                 {"top-left", "top-center", "top-right", "middle-left", "center",
                  "middle-right", "bottom-left", "bottom-center", "bottom-right"})
                => c.res = bottom_right
          /\ c.position = "bottom-right" => c.res = bottom_right

\* custom with the x coordinate missing falls back to bottom-right, and the
\* offsets of an overlay larger than its target come back negative
C22_Witness ==
    /\ engine_call.op = "calculate_position"
    /\ engine_call.position = "custom"
    /\ ~engine_call.custom_x.some
    /\ engine_call.custom_y = Some(1000)
    /\ engine_call.image_size = <<8, 6>>
    /\ engine_call.watermark_size = <<11, 9>>
    /\ engine_call.margin = 3
    /\ engine_call.res = <<-6, -6>>

\* the grid the tiles are to lie on: row r, column n at
\* (spacing + offset(r) + n * stepX, spacing + r * stepY), inside the canvas
C23_Grid ==
    LET c == engine_call
        stepX == c.overlay[1] + c.spacing
        stepY == c.overlay[2] + c.spacing
    IN { <<c.spacing + (IF r % 2 = 1 THEN stepX \div 2 ELSE 0) + n * stepX,
           c.spacing + r * stepY>> : n \in 0..c.image_size[1], r \in 0..c.image_size[2] }
       \cap ((0..(c.image_size[1] - 1)) \X (0..(c.image_size[2] - 1)))

\* C23: create_tile_pattern returns a transparent layer of exactly the target
\* size whose copies sit exactly at x = spacing + offset(r) + n * stepX,
\* y = spacing + r * stepY for all n, r >= 0 with x < width and y < height
\* (stepX = overlay width + spacing, stepY = overlay height + spacing,
\* offset(r) = floor(stepX / 2) on odd rows, 0 on even rows); no copy starts
\* at (0, 0) when spacing > 0.
C23_TileGrid ==
    engine_call.op = "create_tile_pattern" =>
       LET c == engine_call
           layer == c.out.heap[c.out.ret]
           pasted == { layer.paint[k].at : k \in DOMAIN layer.paint }
       IN /\ c.out.exc = None
          /\ layer.mode = "RGBA"
          /\ layer.size = c.image_size
          /\ c.out.heap[1] = BlankLayer(c.overlay)
          /\ pasted = C23_Grid
          /\ Len(layer.paint) = Cardinality(C23_Grid)
          /\ \A k \in DOMAIN layer.paint : layer.paint[k].size = c.overlay
          /\ c.spacing > 0 => <<0, 0>> \notin pasted

\* a layer of three rows whose middle row is shifted by half a step, the
\* layer having the size of the canvas
C23_Witness ==
    /\ engine_call.op = "create_tile_pattern"
    /\ engine_call.overlay = <<100, 50>>
    /\ engine_call.image_size = <<301, 251>>
    /\ engine_call.spacing = 20
    /\ { engine_call.out.heap[engine_call.out.ret].paint[k].at :
            k \in DOMAIN engine_call.out.heap[engine_call.out.ret].paint }
         = { <<20, 20>>, <<140, 20>>, <<260, 20>>, <<80, 90>>, <<200, 90>>,
             <<20, 160>>, <<140, 160>>, <<260, 160>>, <<80, 230>>, <<200, 230>> }

\* C24: create_text_watermark uses the configured font_size when
\* image-relative scaling is off and max(12, floor(min(target width, target
\* height) * scale_factor)) when it is on, and before rotation allocates an
\* overlay of the text bounding box's width and height plus 2 * padding each,
\* where padding is 20, plus 2 * shadow_offset if the shadow is enabled, plus
\* 2 * outline_width if the outline is enabled.
C24_FontSizeAndOverlay ==
    engine_call.op = "create_text_watermark" =>
       LET c == engine_call
           least == IF c.image_size[1] <= c.image_size[2] THEN c.image_size[1]
                    ELSE c.image_size[2]
           scaled == CHOOSE n \in 0..least :
                        /\ 100 * n <= least * c.cfg.scale_factor
                        /\ least * c.cfg.scale_factor < 100 * (n + 1)
           padding == 20 + (IF c.cfg.shadow THEN 2 * c.cfg.shadow_offset ELSE 0)
                         + (IF c.cfg.outline THEN 2 * c.cfg.outline_width ELSE 0)
       IN /\ ~c.cfg.scale_with_image => c.res.font_size = c.cfg.font_size
          /\ c.cfg.scale_with_image =>
                c.res.font_size = (IF scaled < 12 THEN 12 ELSE scaled)
          /\ c.res.drawn_size[1] = (c.bbox[3] - c.bbox[1]) + 2 * padding
          /\ c.res.drawn_size[2] = (c.bbox[4] - c.bbox[2]) + 2 * padding

\* a scaled font size below the limit of 12, and an overlay with shadow and
\* outline around a box that does not start at the origin, turned by 90 degrees
C24_Witness ==
    /\ engine_call.op = "create_text_watermark"
    /\ engine_call.cfg.scale_with_image
    /\ engine_call.image_size = <<50, 40>>
    /\ engine_call.cfg.scale_factor = 8
    /\ engine_call.res.font_size = 12
    /\ engine_call.cfg.shadow /\ engine_call.cfg.outline
    /\ engine_call.bbox = <<2, 7, 64, 25>>
    /\ engine_call.res.drawn_size = <<106, 62>>
    /\ engine_call.res.size = <<62, 106>>

\* C25: prepare_logo scales the logo to the width floor(min(target width,
\* target height) * scale), with the height floor(width / (logo width / logo
\* height)) when the aspect ratio is kept and the height equal to the width
\* otherwise, then applies grayscale (if requested), opacity and rotation in
\* that order; for every configuration ImageWatermarkConfig accepts and every
\* target size the scaled logo has a positive width and a positive height.
C25_ScaledLogoPositive ==
    engine_call.op = "prepare_logo" =>
       LET c == engine_call
           least == IF c.target_size[1] <= c.target_size[2] THEN c.target_size[1]
                    ELSE c.target_size[2]
           width == CHOOSE n \in 0..least :
                       /\ 100 * n <= least * c.cfg.scale
                       /\ least * c.cfg.scale < 100 * (n + 1)
           height == IF c.cfg.maintain_aspect_ratio
                     THEN CHOOSE n \in 0..(width * c.logo_size[2]) :
                             /\ n * c.logo_size[1] <= width * c.logo_size[2]
                             /\ width * c.logo_size[2] < (n + 1) * c.logo_size[1]
                     ELSE width
       IN /\ c.res.new_size = <<width, height>>
          /\ width > 0 /\ height > 0
          /\ c.res.exc = None
          /\ c.res.steps = << "resize" >>
                \o (IF c.cfg.grayscale THEN << "convert_to_grayscale" >> ELSE << >>)
                \o << "apply_opacity" >>
                \o (IF c.cfg.rotation # 0 THEN << "rotate_image" >> ELSE << >>)

\* the processing threads whose run has not been reported to the window yet
C26_ActiveRuns == {t \in DOMAIN processing_threads : processing_threads[t].phase # "over"}

\* C26: in the main window Process is enabled and Cancel disabled initially
\* and again after every run has ended, normally or with an error; while a
\* run is active Process is disabled and Cancel is enabled, so at most one
\* batch run is active at a time on the shared BatchProcessor.
C26_ButtonsFollowRun ==
    /\ Cardinality(C26_ActiveRuns) <= 1
    /\ C26_ActiveRuns # {} => (~window.process_btn /\ window.cancel_btn)
    /\ C26_ActiveRuns = {} => (window.process_btn /\ ~window.cancel_btn)
    /\ pc # "nocall" => \E t \in C26_ActiveRuns : processing_threads[t].phase = "running"
    /\ OnProcessingFinished(window, ReturnKwargs).process_btn
    /\ ~OnProcessingFinished(window, ReturnKwargs).cancel_btn

\* a first run has ended with an error and been reported, and a second run
\* is inside process_batch
C26_Witness ==
    /\ Len(processing_threads) = 2
    /\ processing_threads[1].phase = "over"
    /\ processing_threads[2].phase = "running"
    /\ pc = "as_completed"
    /\ ~window.process_btn
    /\ window.cancel_btn

\* C27 (part): the step that enters process_batch leaves the flag cleared,
\* whatever it was before
C27_EntryClearsFlag == (pc = "idle" /\ pc' # "idle") => ~cancel_flag'

\* C27 (part): the completion loop is left early only with the flag set,
\* that is by a cancel() that came after the entry
C27_EarlyEndNeedsLaterCancel == (pc = "cancel" \/ broke) => cancel_flag

\* C27: process_batch clears the cancellation flag on entry: a cancel() issued
\* before the run starts (left over from a cancelled run, or a Cancel click
\* between the enabling of the button and the thread's entry into
\* process_batch) has no effect on that run; only a cancel() after the entry
\* can end it early.
C27_CancelBeforeEntryIsLost ==
    /\ [][C27_EntryClearsFlag]_vars
    /\ [](C27_EarlyEndNeedsLaterCancel)

\* Cancel was clicked before the thread entered process_batch (the status bar
\* still says so), and the run went through every file
C27_Witness ==
    /\ window.statusbar = Message("Cancelling...")
    /\ pc = "done"
    /\ ~cancel_flag
    /\ ~broke
    /\ total > 0
    /\ Len(results) = total

\* the completion the loop was looking at when it found the flag set
SeenAfterFlag == IF pc = "cancel" \/ broke THEN {cur} ELSE {}

\* the futures whose result the loop has appended to results
Recorded ==
    { f \in yielded : f \notin SeenAfterFlag /\ ~(f = cur /\ pc \in {"check", "result"}) }

\* C28: at every point of a run, cancelled or not, successful + failed =
\* number of recorded results <= total; total counts every dispatched file;
\* the results are those of the completions handed out before the flag was
\* seen, so the completion seen after the flag was set has no entry.
C28_CountsMatchResults ==
    /\ successful + failed = Len(results)
    /\ successful = Cardinality({k \in DOMAIN results : results[k].success})
    /\ Len(results) <= total
    /\ pc # "idle" => /\ total = Len(valid_paths)
                      /\ total = Len(futures)
    /\ Len(results) = Cardinality(Recorded)
    /\ \A f \in Recorded : \E k \in DOMAIN results : results[k] = futures[f].result.val
    /\ \A f \in SeenAfterFlag :
          /\ futures[f].state = "done"
          /\ \A k \in DOMAIN results : results[k].input_file # valid_paths[f]

\* C28 witness: a cancelled run is over with fewer counted results than
\* dispatched files, and the task whose completion was seen after the flag
\* was set had written its output
C28_Witness ==
    /\ pc = "done"
    /\ broke
    /\ Len(results) >= 1
    /\ failed >= 1
    /\ successful + failed < total
    /\ futures[cur].state = "done"
    /\ futures[cur].result.val.success
    /\ \A k \in DOMAIN results : results[k].input_file # valid_paths[cur]

\* no work item of the pool is queued or running
PoolQuiet == \A f \in DOMAIN futures : futures[f].state \in {"done", "cancelled"}

\* C29: every call of process_batch terminates when every worker task
\* terminates: whether or not cancel() is called at some point of the run,
\* and for any number of dispatched files including none, the completion loop
\* ends, the worker pool shuts down and the call is over.
C29_ProcessBatchTerminates == (pc # "idle") ~> (pc = "done" /\ PoolQuiet)

\* C29 witness: a run that was cancelled while tasks were queued is over,
\* with the queued tasks cancelled and nothing left running
C29_Witness ==
    /\ pc = "done"
    /\ cancel_flag
    /\ broke
    /\ PoolQuiet
    /\ futures[cur].state = "done"
    /\ \E f \in DOMAIN futures : futures[f].state = "cancelled"

\* a list without a path present twice
NoDuplicates(list) == \A j, k \in DOMAIN list : list[j] = list[k] => j = k

\* C30: a batch started from the main window processes exactly the files
\* shown in the file list panel: whenever Process All starts a thread, after
\* any sequence of add-images, add-folder, remove-selected and clear
\* operations, the path list handed over equals the panel's list, so it holds
\* no removed entry and no path twice.
C30_HandsOverPanelList ==
    [][ Len(processing_threads') > Len(processing_threads) =>
            /\ input_paths' = image_paths'
            /\ NoDuplicates(input_paths') ]_vars

====
